---- MODULE Spec2Model ----
(***************************************************************************)
(* Model of the Postman collection store: the collection and request       *)
(* tables, the importer (ImportPostmanCollection / processPostmanItems),   *)
(* the exporter (ExportPostmanCollection) and the collection operations    *)
(* of internal/service/collection_service.go, with the JSON encode/decode  *)
(* steps the converter relies on.                                          *)
(*                                                                         *)
(* Strings whose structure matters (item names, folder paths) are          *)
(* sequences of one-character strings, so that concatenation and the       *)
(* position of "/" can be observed.  Other strings are TLA+ strings.       *)
(***************************************************************************)
EXTENDS Integers, Sequences, FiniteSets, TLC

VARIABLES
    data,               \* the bytes of the upload sent to the import endpoint
    imported,           \* NotImported, or what the import of data returned
    collections,        \* the collections table
    requests,           \* the requests table
    nextCollectionID,   \* the serial counter of collections.id
    nextRequestID,      \* the serial counter of requests.id
    last,               \* the last operation and its outcome
    httpResponse,       \* the HTTP response of the last handler call
    requestOps,         \* the number of calls made to the request endpoints
    inflight,           \* the service call each concurrent HTTP request is in
    specs,              \* the openapi_specs table
    nextSpecID          \* the serial counter of openapi_specs.id

vars == <<data, imported, collections, requests, nextCollectionID, nextRequestID, last, httpResponse,
          requestOps, inflight, specs, nextSpecID>>

(***************************************************************************)
(* Bounds of the model.                                                    *)
(***************************************************************************)
MaxNodes == 3
MaxHeaders == 2
MaxRequestOps == 2

(***************************************************************************)
(* Program constants.                                                      *)
(***************************************************************************)
ExportListOffset == 0
ExportListLimit == 1000
PostmanSchemaURI == "https://schema.getpostman.com/json/collection/v2.1.0/collection.json"

(***************************************************************************)
(* Go values.  A decoded JSON value (Go `any`) is nil, a string, a         *)
(* float64, a slice or a map; models.JSONMap is a nil map or a map.        *)
(***************************************************************************)
NilValue == [t |-> "nil"]
StringValue(s) == [t |-> "string", v |-> s]
NumberValue(n) == [t |-> "float64", v |-> n]
SliceValue(a) == [t |-> "slice", v |-> a]
JSONMap(f) == [t |-> "map", m |-> f]
EmptyJSONMap == JSONMap(<<>>)

MapLen(j) == IF j.t = "map" THEN Cardinality(DOMAIN j.m) ELSE 0

(***************************************************************************)
(* JSON text, as produced by json.Marshal and consumed by json.Unmarshal:  *)
(* null, a string, a number, an array of texts or an object of texts.      *)
(* A number literal is a small integer n, or the integer 2^53 + n when it  *)
(* carries the above53 mark.                                               *)
(***************************************************************************)
TNull == [k |-> "null"]
TString(s) == [k |-> "string", s |-> s]
TNumber(n) == [k |-> "number", n |-> n]
TNumberAbove53(n) == [k |-> "number", n |-> n, above53 |-> TRUE]
NumberValueAbove53(n) == [t |-> "float64", v |-> n, above53 |-> TRUE]

\* The float64 nearest to the integer 2^53 + n, as an offset from 2^53: the
\* float64 values from 2^53 to 2^54 are the even integers, and a literal
\* half way between two of them converts to the one with the even mantissa.
NearestFloat64Above53(n) ==
    IF n % 2 = 0 THEN n
    ELSE IF n % 4 = 1 THEN n - 1 ELSE n + 1

\* The conversion of a number literal to float64 (the decoder stores every
\* number of an `any` as float64): integers up to 2^53 are exact.
ConvertNumber(text) ==
    IF "above53" \in DOMAIN text
    THEN NumberValueAbove53(NearestFloat64Above53(text.n))
    ELSE NumberValue(text.n)

\* The literal json.Marshal writes for a float64 holding an integer.
FloatEncoder(v) ==
    IF "above53" \in DOMAIN v THEN TNumberAbove53(v.v) ELSE TNumber(v.v)
TArray(a) == [k |-> "array", a |-> a]
TObject(f) == [k |-> "object", o |-> f]

\* json.Marshal of a generic value or of a JSONMap (a nil map encodes as null).
RECURSIVE Marshal(_)
Marshal(v) ==
    CASE v.t = "nil" -> TNull
      [] v.t = "string" -> TString(v.v)
      [] v.t = "float64" -> FloatEncoder(v)
      [] v.t = "slice" -> TArray([i \in DOMAIN v.v |-> Marshal(v.v[i])])
      [] v.t = "map" -> TObject([key \in DOMAIN v.m |-> Marshal(v.m[key])])

\* json.Unmarshal into a Go `any`.
RECURSIVE UnmarshalAny(_)
UnmarshalAny(text) ==
    CASE text.k = "null" -> NilValue
      [] text.k = "string" -> StringValue(text.s)
      [] text.k = "number" -> ConvertNumber(text)
      [] text.k = "array" -> SliceValue([i \in DOMAIN text.a |-> UnmarshalAny(text.a[i])])
      [] text.k = "object" -> JSONMap([key \in DOMAIN text.o |-> UnmarshalAny(text.o[key])])

\* json.Unmarshal(text, &target) for a target of type models.JSONMap: an
\* object fills the map, null sets it to nil, anything else is a type error
\* that leaves the target as it was.
UnmarshalJSONMap(text, target) ==
    CASE text.k = "object" ->
            [err |-> FALSE,
             val |-> JSONMap([key \in (DOMAIN text.o) \cup
                                       (IF target.t = "map" THEN DOMAIN target.m ELSE {}) |->
                                IF key \in DOMAIN text.o THEN UnmarshalAny(text.o[key])
                                ELSE target.m[key]])]
      [] text.k = "null" -> [err |-> FALSE, val |-> NilValue]
      [] OTHER -> [err |-> TRUE, val |-> target]

\* JSONMap.Scan: a NULL column reads back as an empty map.
Scan(src) == IF src.t = "nil" THEN EmptyJSONMap ELSE src

(***************************************************************************)
(* Exchange-format structs (models.PostmanCollection, PostmanItem,         *)
(* PostmanRequest, PostmanBody, KeyValuePair, PostmanEvent).               *)
(***************************************************************************)
NilRequest == [t |-> "nil"]
PostmanRequest(url, method, header, body, auth) ==
    [t |-> "request", URL |-> url, Method |-> method, Header |-> header,
     Body |-> body, Auth |-> auth]
PostmanBody(mode, raw) == [Mode |-> mode, Raw |-> raw]
ZeroBody == PostmanBody("", "")
KeyValuePair(key, value) == [Key |-> key, Value |-> value]
PostmanItem(name, item, request, event, response) ==
    [Name |-> name, Item |-> item, Request |-> request,
     Event |-> event, Response |-> response]

\* An object text from a set of <<key, text>> members (omitted members are
\* simply not in the set).
Obj(members) ==
    TObject([key \in {p[1] : p \in members} |->
                (CHOOSE p \in members : p[1] = key)[2]])

Opt(present, key, text) == IF present THEN {<<key, text>>} ELSE {}

\* json.Marshal of a KeyValuePair list, a PostmanBody, a PostmanEvent list
\* and a PostmanResponse list.
MarshalKeyValues(kvs) ==
    TArray([i \in DOMAIN kvs |->
              Obj({<<"key", TString(kvs[i].Key)>>, <<"value", TString(kvs[i].Value)>>})])

MarshalBody(body) ==
    Obj(Opt(body.Mode # "", "mode", TString(body.Mode))
        \cup Opt(body.Raw # "", "raw", TString(body.Raw)))

MarshalEvents(events) ==
    TArray([i \in DOMAIN events |->
              Obj({<<"listen", TString(events[i])>>,
                   <<"script", Obj({<<"type", TString("")>>, <<"exec", TNull>>})>>})])

MarshalResponses(responses) ==
    TArray([i \in DOMAIN responses |-> Obj({<<"name", TString(responses[i])>>})])

\* json.Marshal of a *PostmanRequest: url and method are always written,
\* header/auth are omitempty, body is omitzero.
MarshalRequest(r) ==
    Obj({<<"url", Marshal(r.URL)>>, <<"method", TString(r.Method)>>}
        \cup Opt(Len(r.Header) > 0, "header", MarshalKeyValues(r.Header))
        \cup Opt(r.Body # ZeroBody, "body", MarshalBody(r.Body))
        \cup Opt(r.Auth # NilValue, "auth", r.Auth))

\* json.Marshal of a PostmanItem: name is always written, every other
\* field is omitempty.
RECURSIVE MarshalItem(_)
MarshalItem(it) ==
    Obj({<<"name", TString(it.Name)>>}
        \cup Opt(Len(it.Item) > 0, "item",
                 TArray([i \in DOMAIN it.Item |-> MarshalItem(it.Item[i])]))
        \cup Opt(it.Request # NilRequest, "request",
                 IF it.Request # NilRequest THEN MarshalRequest(it.Request) ELSE TNull)
        \cup Opt(Len(it.Response) > 0, "response", MarshalResponses(it.Response))
        \cup Opt(Len(it.Event) > 0, "event", MarshalEvents(it.Event)))

\* json.Marshal of a []PostmanItem: a nil slice encodes as null, any other
\* slice (the empty one included) as an array.
MarshalItems(items) ==
    IF items.t = "nil" THEN TNull
    ELSE TArray([i \in DOMAIN items.v |-> MarshalItem(items.v[i])])

\* len() of a Go slice: a nil slice has length 0.
SliceLen(s) == IF s.t = "nil" THEN 0 ELSE Len(s.v)
SliceElems(s) == IF s.t = "nil" THEN <<>> ELSE s.v

(***************************************************************************)
(* Storage: the collections and requests tables are sequences of rows in   *)
(* insertion order; ids come from the tables' serial counters.             *)
(***************************************************************************)
Collection(id, name, schema, variables, auth, events, items) ==
    [ID |-> id, Name |-> name, Schema |-> schema, Variables |-> variables,
     Auth |-> auth, Events |-> events, Items |-> items]

Request(id, collectionID, name, folderPath, url, method, headers, params, body, auth, events, responses) ==
    [ID |-> id, CollectionID |-> collectionID, Name |-> name,
     FolderPath |-> folderPath, URL |-> url, Method |-> method,
     Headers |-> headers, Params |-> params, Body |-> body, Auth |-> auth,
     Events |-> events, Responses |-> responses]

\* RequestRepository.Create within one import: st carries the requests
\* table, its serial counter, the number of create calls made so far and the
\* call at which the storage fails (0: never).
RequestRepoCreate(st, request) ==
    IF st.calls + 1 = st.failAt
    THEN [st EXCEPT !.calls = @ + 1, !.err = TRUE]
    ELSE [st EXCEPT !.calls = @ + 1,
                    !.requests = Append(@, [request EXCEPT !.ID = st.nextID]),
                    !.nextID = @ + 1]

\* m[key] = value on a Go map.
MapSet(m, key, value) ==
    [x \in (DOMAIN m) \cup {key} |-> IF x = key THEN value ELSE m[x]]

\* A variant that keeps the first value of a key.
HeadersOfFirstWins(m, list) ==
    [key \in (DOMAIN m) \cup {list[i].Key : i \in DOMAIN list} |->
        IF key \in DOMAIN m THEN m[key]
        ELSE list[CHOOSE i \in DOMAIN list :
                     /\ list[i].Key = key
                     /\ \A j \in DOMAIN list : list[j].Key = key => i <= j].Value]

\* for _, kv := range list { headers[kv.Key] = kv.Value }
RECURSIVE HeadersOf(_, _)
HeadersOf(m, list) ==
    IF list = <<>> THEN m
    ELSE HeadersOf(MapSet(m, Head(list).Key, Head(list).Value), Tail(list))

\* for _, v := range Variable { variables[v.Key] = v.Value }
RECURSIVE VariablesOf(_, _)
VariablesOf(m, list) ==
    IF list = <<>> THEN m
    ELSE VariablesOf(MapSet(m, Head(list).Key, StringValue(Head(list).Value)), Tail(list))

\* A variant without the string case: every shape goes through
\* Marshal/Unmarshal.
NormalizeURLBare(url) ==
    LET res == UnmarshalJSONMap(Marshal(url), NilValue)
    IN IF res.err \/ res.val = NilValue THEN EmptyJSONMap ELSE res.val

\* A variant that keeps only the raw member of an object, as CreateRequest
\* does.
NormalizeURLRawOnly(url) ==
    IF url.t = "string"
    THEN IF url.v # "" THEN JSONMap([key \in {"raw"} |-> StringValue(url.v)])
         ELSE EmptyJSONMap
    ELSE IF url.t = "map"
    THEN IF "raw" \in DOMAIN url.m /\ url.m["raw"].t = "string"
         THEN JSONMap([key \in {"raw"} |-> url.m["raw"]]) ELSE url
    ELSE EmptyJSONMap

\* A variant whose default case stores a placeholder string for a shape that
\* is not an object.
NormalizeURLPlaceholder(url) ==
    IF url.t = "string"
    THEN IF url.v # "" THEN JSONMap([key \in {"raw"} |-> StringValue(url.v)])
         ELSE EmptyJSONMap
    ELSE IF url.t = "map" THEN url
    ELSE JSONMap([key \in {"raw"} |-> StringValue("?")])

\* The URL switch of processPostmanItems: a non-empty string is wrapped as
\* {"raw": s}, an empty string gives {}, any other shape goes through
\* Marshal/Unmarshal into a JSONMap, and a nil result is replaced by {}.
NormalizeURL(url) ==
    LET urlMap ==
            IF url.t = "string"
            THEN IF url.v # "" THEN JSONMap([key \in {"raw"} |-> StringValue(url.v)])
                 ELSE EmptyJSONMap
            ELSE LET res == UnmarshalJSONMap(Marshal(url), NilValue)
                 IN IF res.err THEN EmptyJSONMap ELSE res.val
    IN IF urlMap = NilValue THEN EmptyJSONMap ELSE urlMap

\* A variant that keeps whatever the text decodes to, a list included.
DecodeBlobAny(text) == UnmarshalAny(text)

\* Encode-then-decode of an optional blob into a JSONMap field that starts
\* nil and is assigned only when the decode succeeds.
DecodeBlob(text) ==
    LET res == UnmarshalJSONMap(text, NilValue)
    IN IF res.err THEN NilValue ELSE res.val

\* A variant that builds the record with the id a collection has before it
\* is created.
RequestOfItemBeforeCreate(item, collectionID, parentPath) ==
    Request(0, 0, item.Name, parentPath,
            NormalizeURL(item.Request.URL),
            item.Request.Method,
            IF Len(item.Request.Header) > 0
            THEN JSONMap(HeadersOf(<<>>, item.Request.Header)) ELSE NilValue,
            NilValue,
            DecodeBlob(MarshalBody(item.Request.Body)),
            IF item.Request.Auth # NilValue THEN DecodeBlob(item.Request.Auth) ELSE NilValue,
            IF Len(item.Event) > 0 THEN DecodeBlob(MarshalEvents(item.Event)) ELSE NilValue,
            IF Len(item.Response) > 0 THEN DecodeBlob(MarshalResponses(item.Response))
            ELSE NilValue)

\* The request record built for one leaf item.
RequestOfItem(item, collectionID, parentPath) ==
    Request(0, collectionID, item.Name, parentPath,
            NormalizeURL(item.Request.URL),
            item.Request.Method,
            IF Len(item.Request.Header) > 0
            THEN JSONMap(HeadersOf(<<>>, item.Request.Header)) ELSE NilValue,
            NilValue,
            DecodeBlob(MarshalBody(item.Request.Body)),
            IF item.Request.Auth # NilValue THEN DecodeBlob(item.Request.Auth) ELSE NilValue,
            IF Len(item.Event) > 0 THEN DecodeBlob(MarshalEvents(item.Event)) ELSE NilValue,
            IF Len(item.Response) > 0 THEN DecodeBlob(MarshalResponses(item.Response))
            ELSE NilValue)

\* A variant that always writes the separator.
CurrentPathAlwaysSlash(parentPath, name) == parentPath \o <<"/">> \o name

\* currentPath := parentPath; if currentPath != "" { currentPath += "/" };
\* currentPath += item.Name
CurrentPath(parentPath, name) ==
    (IF parentPath # <<>> THEN parentPath \o <<"/">> ELSE parentPath) \o name

RECURSIVE processPostmanItems(_, _, _, _)

\* A variant without the `continue` after the recursion: a folder that
\* carries a request also yields a record.
ProcessItemNoContinue(item, collectionID, parentPath, st) ==
    LET st1 == IF Len(item.Item) > 0
               THEN processPostmanItems(item.Item, collectionID,
                                        CurrentPath(parentPath, item.Name), st)
               ELSE st
    IN IF st1.err \/ item.Request = NilRequest THEN st1
       ELSE RequestRepoCreate(st1, RequestOfItem(item, collectionID, parentPath))

\* A variant that creates a record for every node that carries a request,
\* a folder included, before it descends.
ProcessItemFolderRecord(item, collectionID, parentPath, st) ==
    LET st1 == IF item.Request = NilRequest THEN st
               ELSE RequestRepoCreate(st, RequestOfItem(item, collectionID, parentPath))
    IN IF st1.err \/ Len(item.Item) = 0 THEN st1
       ELSE processPostmanItems(item.Item, collectionID,
                                CurrentPath(parentPath, item.Name), st1)

\* One iteration of the loop of processPostmanItems.
ProcessItem(item, collectionID, parentPath, st) ==
    IF Len(item.Item) > 0
    THEN processPostmanItems(item.Item, collectionID,
                             CurrentPath(parentPath, item.Name), st)
    ELSE IF item.Request = NilRequest THEN st
    ELSE RequestRepoCreate(st, RequestOfItem(item, collectionID, parentPath))

\* A variant that does not return at an error: the loop goes on to the
\* remaining items.
processPostmanItemsNoAbort(items, collectionID, parentPath, st) ==
    IF items = <<>> THEN st
    ELSE IF Len(items) = 1 THEN ProcessItem(items[1], collectionID, parentPath, st)
    ELSE LET h == Len(items) \div 2
             st1 == processPostmanItems(SubSeq(items, 1, h), collectionID, parentPath, st)
         IN IF st1.calls < 0 THEN st1
            ELSE processPostmanItems(SubSeq(items, h + 1, Len(items)),
                                     collectionID, parentPath, st1)

\* A variant that visits the second half of the items first.
processPostmanItemsBackwards(items, collectionID, parentPath, st) ==
    IF items = <<>> \/ st.err THEN st
    ELSE IF Len(items) = 1 THEN ProcessItem(items[1], collectionID, parentPath, st)
    ELSE LET h == Len(items) \div 2
             st1 == processPostmanItems(SubSeq(items, h + 1, Len(items)),
                                        collectionID, parentPath, st)
         IN IF st1.err THEN st1
            ELSE processPostmanItems(SubSeq(items, 1, h), collectionID, parentPath, st1)

\* The loop over items, stopping at the first error.  The range is split in
\* halves, left half first, which visits the items in the same order as the
\* loop.
processPostmanItems(items, collectionID, parentPath, st) ==
    IF items = <<>> \/ st.err THEN st
    ELSE IF Len(items) = 1 THEN ProcessItem(items[1], collectionID, parentPath, st)
    ELSE LET h == Len(items) \div 2
             st1 == processPostmanItems(SubSeq(items, 1, h), collectionID, parentPath, st)
         IN IF st1.err THEN st1
            ELSE processPostmanItems(SubSeq(items, h + 1, Len(items)),
                                     collectionID, parentPath, st1)

(***************************************************************************)
(* The uploaded bytes.  `data` is either not decodable at all (valid =     *)
(* FALSE: a syntax error) or a JSON object whose info.name is still raw    *)
(* text (absent, null, a string or a number) and whose other members are   *)
(* given as the Go values json.Unmarshal decodes them to.                  *)
(***************************************************************************)
Absent == [k |-> "absent"]
InvalidJSON == [valid |-> FALSE]
Document(name, schema, item, variable, auth, event) ==
    [valid |-> TRUE, name |-> name, schema |-> schema, item |-> item,
     variable |-> variable, auth |-> auth, event |-> event]

\* json.Unmarshal(data, &postmanCollection): a string member that is absent
\* or null leaves the Go string empty; a member of another JSON type is an
\* error.
UnmarshalPostmanCollection(d) ==
    IF ~d.valid THEN [err |-> TRUE]
    ELSE IF d.name.k \notin {"absent", "null", "string"} THEN [err |-> TRUE]
    ELSE [err |-> FALSE,
          Info |-> [Name |-> IF d.name.k = "string" THEN d.name.s ELSE <<>>],
          Item |-> d.item, Variable |-> d.variable, Auth |-> d.auth,
          Event |-> d.event, Schema |-> d.schema]

\* A variant that accepts every name.
NameMissingNever(pc) == FALSE

\* if postmanCollection.Info.Name == "" { return error }
NameMissing(pc) == pc.Info.Name = <<>>

\* The collection row ImportPostmanCollection builds from the decoded
\* document.
CollectionOfDocument(pc) ==
    Collection(0, pc.Info.Name, pc.Schema,
               JSONMap(VariablesOf(<<>>, pc.Variable)),
               IF pc.Auth # NilValue THEN UnmarshalJSONMap(pc.Auth, NilValue).val
               ELSE NilValue,
               IF Len(pc.Event) > 0
               THEN UnmarshalJSONMap(MarshalEvents(pc.Event), NilValue).val
               ELSE NilValue,
               UnmarshalJSONMap(MarshalItems(pc.Item), NilValue).val)

\* The record of the last operation: its name, the id it was given or
\* returned, whether it returned an error, the number of request rows before
\* it ran, and the bytes it returned.
Result(op, id, err, pre, out) ==
    [op |-> op, id |-> id, err |-> err, pre |-> pre, out |-> out]
NoResult == Result("none", 0, FALSE, 0, TNull)

\* The request insert that fails: none, the first or the second.
FailPoints == {0, 1, 2}

\* What became of the upload: not handled yet, or handled, with the id of the
\* collection row it created (0: none) and whether it returned an error.
NotImported == [done |-> FALSE]
Imported(id, err) == [done |-> TRUE, id |-> id, err |-> err]

\* ImportPostmanCollection(ctx, data).  failCollection and failAt are the
\* storage's behaviour: whether the collection insert fails and which request
\* insert (0: none) fails.
ImportPostmanCollection(failCollection, failAt) ==
    /\ imported = NotImported
    /\ LET pc == UnmarshalPostmanCollection(data)
           pre == Len(requests)
       IN IF pc.err \/ (~pc.err /\ NameMissing(pc)) \/ failCollection
          THEN /\ last' = Result("import", 0, TRUE, pre, TNull)
               /\ imported' = Imported(0, TRUE)
               /\ UNCHANGED <<collections, requests, nextCollectionID, nextRequestID>>
          ELSE LET collection == [CollectionOfDocument(pc) EXCEPT !.ID = nextCollectionID]
                   st == processPostmanItems(SliceElems(pc.Item), collection.ID, <<>>,
                                             [requests |-> requests, nextID |-> nextRequestID,
                                              calls |-> 0, failAt |-> failAt, err |-> FALSE])
               IN /\ collections' = Append(collections, collection)
                  /\ nextCollectionID' = nextCollectionID + 1
                  /\ requests' = st.requests
                  /\ nextRequestID' = st.nextID
                  /\ last' = Result("import", IF st.err THEN 0 ELSE collection.ID,
                                    st.err, pre, TNull)
                  /\ imported' = Imported(collection.ID, st.err)
    /\ UNCHANGED data

(***************************************************************************)
(* Reading rows back.                                                      *)
(***************************************************************************)
\* A collection row as CollectionRepository.GetByID returns it: the JSONMap
\* columns go through JSONMap.Scan.
ScanCollection(row) ==
    [row EXCEPT !.Variables = Scan(@), !.Auth = Scan(@), !.Events = Scan(@),
                !.Items = Scan(@)]

\* A request row as the request repository returns it.
ScanRequest(row) ==
    [row EXCEPT !.URL = Scan(@), !.Params = Scan(@), !.Body = Scan(@),
                !.Auth = Scan(@), !.Events = Scan(@), !.Responses = Scan(@)]

\* Whether CollectionRepository.GetByID finds a row.
CollectionExists(id) == \E i \in DOMAIN collections : collections[i].ID = id

\* CollectionRepository.GetByID on a row that exists.
GetByID(id) ==
    ScanCollection(collections[CHOOSE i \in DOMAIN collections : collections[i].ID = id])

\* RequestRepository.ListByCollectionID: the rows of the collection, newest
\* first (created_at DESC; rows are stamped at insertion, so this is reverse
\* insertion order), from offset, at most limit of them.
ListByCollectionID(rows, collectionID, offset, limit) ==
    LET sel == SelectSeq(rows, LAMBDA r : r.CollectionID = collectionID)
        n == Len(sel)
        hi == IF offset + limit < n THEN offset + limit ELSE n
    IN [i \in 1..(IF hi > offset THEN hi - offset ELSE 0) |->
            ScanRequest(sel[n + 1 - (offset + i)])]

(***************************************************************************)
(* Export.                                                                 *)
(***************************************************************************)
\* The keys of Go maps in this model; ranging over a map visits its keys in
\* an order the runtime picks, given here as a permutation of the key
\* universe.
MapKeys == {"A", "B"}

Orderings(S) ==
    {p \in [1..Cardinality(S) -> S] : \A i, j \in DOMAIN p : i # j => p[i] # p[j]}

KeysInOrder(m, order) == SelectSeq(order, LAMBDA key : key \in DOMAIN m)

\* fmt.Sprintf("%v", v)
Sprintf(v) ==
    CASE v.t = "string" -> v.v
      [] v.t = "float64" -> ToString(v.v)
      [] v.t = "nil" -> "<nil>"
      [] OTHER -> "[...]"

\* json.Unmarshal(text, &body) for a PostmanBody: string members are copied,
\* members of another type are skipped.
UnmarshalBody(text) ==
    LET field(key) == IF text.k = "object" /\ key \in DOMAIN text.o
                         /\ text.o[key].k = "string"
                      THEN text.o[key].s ELSE ""
    IN PostmanBody(field("mode"), field("raw"))

\* json.Unmarshal(text, &list) for a []PostmanEvent or []PostmanResponse that
\* is nil before the call: only an array decodes; an object is a type error
\* and leaves the list nil.
UnmarshalNames(text, key) ==
    IF text.k = "array"
    THEN [i \in DOMAIN text.a |->
            IF text.a[i].k = "object" /\ key \in DOMAIN text.a[i].o
               /\ text.a[i].o[key].k = "string"
            THEN text.a[i].o[key].s ELSE ""]
    ELSE <<>>

\* json.Unmarshal(text, &items) for a []PostmanItem.
RECURSIVE UnmarshalItem(_)
UnmarshalItem(text) ==
    LET has(key) == text.k = "object" /\ key \in DOMAIN text.o
        req == text.o["request"]
        rhas(key) == req.k = "object" /\ key \in DOMAIN req.o
    IN PostmanItem(
          IF has("name") /\ text.o["name"].k = "string" THEN text.o["name"].s ELSE <<>>,
          IF has("item") /\ text.o["item"].k = "array"
          THEN [i \in DOMAIN text.o["item"].a |-> UnmarshalItem(text.o["item"].a[i])]
          ELSE <<>>,
          IF has("request") /\ req.k = "object"
          THEN PostmanRequest(
                  IF rhas("url") THEN UnmarshalAny(req.o["url"]) ELSE NilValue,
                  IF rhas("method") /\ req.o["method"].k = "string"
                  THEN req.o["method"].s ELSE "",
                  <<>>,
                  IF rhas("body") THEN UnmarshalBody(req.o["body"]) ELSE ZeroBody,
                  IF rhas("auth") THEN req.o["auth"] ELSE NilValue)
          ELSE NilRequest,
          IF has("event") THEN UnmarshalNames(text.o["event"], "listen") ELSE <<>>,
          IF has("response") THEN UnmarshalNames(text.o["response"], "name") ELSE <<>>)

\* A variant that decodes an object as an empty item list.
UnmarshalItemsLenient(text) ==
    CASE text.k = "array" ->
            [err |-> FALSE,
             val |-> SliceValue([i \in DOMAIN text.a |-> UnmarshalItem(text.a[i])])]
      [] text.k = "null" -> [err |-> FALSE, val |-> NilValue]
      [] OTHER -> [err |-> FALSE, val |-> SliceValue(<<>>)]

UnmarshalItems(text) ==
    CASE text.k = "array" ->
            [err |-> FALSE,
             val |-> SliceValue([i \in DOMAIN text.a |-> UnmarshalItem(text.a[i])])]
      [] text.k = "null" -> [err |-> FALSE, val |-> NilValue]
      [] OTHER -> [err |-> TRUE, val |-> NilValue]

\* The leaf item ExportPostmanCollection builds for one request record.
ItemOfRequest(req, order) ==
    PostmanItem(req.Name, <<>>,
        PostmanRequest(
            IF req.URL # NilValue THEN UnmarshalAny(Marshal(req.URL)) ELSE NilValue,
            req.Method,
            IF req.Headers # NilValue
            THEN LET keys == KeysInOrder(req.Headers.m, order)
                 IN [i \in DOMAIN keys |-> KeyValuePair(keys[i], req.Headers.m[keys[i]])]
            ELSE <<>>,
            IF req.Body # NilValue THEN UnmarshalBody(Marshal(req.Body)) ELSE ZeroBody,
            IF req.Auth # NilValue THEN Marshal(req.Auth) ELSE NilValue),
        IF req.Events # NilValue THEN UnmarshalNames(Marshal(req.Events), "listen") ELSE <<>>,
        IF req.Responses # NilValue THEN UnmarshalNames(Marshal(req.Responses), "name")
        ELSE <<>>)

\* The document-level variable list, auth and event fields.
VariableOf(collection, order) ==
    IF collection.Variables # NilValue
    THEN LET keys == KeysInOrder(collection.Variables.m, order)
         IN [i \in DOMAIN keys |->
                KeyValuePair(keys[i], Sprintf(collection.Variables.m[keys[i]]))]
    ELSE <<>>

AuthOf(collection) ==
    IF collection.Auth # NilValue THEN Marshal(collection.Auth) ELSE NilValue

EventOf(collection) ==
    IF collection.Events # NilValue
    THEN UnmarshalNames(Marshal(collection.Events), "listen") ELSE <<>>

\* A variant that writes the stored schema.
ExportSchemaStored(collection) == collection.Schema

\* The schema ExportPostmanCollection stamps on the document.
ExportSchema(collection) == PostmanSchemaURI

\* json.MarshalIndent of the PostmanCollection: info and item are always
\* written (a nil item slice as null), the other members are omitempty.
MarshalPostmanCollection(collection, item, order) ==
    Obj({<<"info", Obj({<<"name", TString(collection.Name)>>}
                       \cup Opt(collection.Schema # "", "schema",
                                TString(collection.Schema)))>>,
         <<"item", MarshalItems(item)>>}
        \cup Opt(Len(VariableOf(collection, order)) > 0, "variable",
                 MarshalKeyValues(VariableOf(collection, order)))
        \cup Opt(AuthOf(collection) # NilValue, "auth", AuthOf(collection))
        \cup Opt(Len(EventOf(collection)) > 0, "event", MarshalEvents(EventOf(collection)))
        \cup Opt(ExportSchema(collection) # "", "schema", TString(ExportSchema(collection))))

\* folderMap[req.FolderPath] = append(folderMap[req.FolderPath], item), for
\* every listed request in listing order.
FolderMap(reqs, order) ==
    [path \in {reqs[i].FolderPath : i \in DOMAIN reqs} |->
        LET sel == SelectSeq(reqs, LAMBDA r : r.FolderPath = path)
        IN [i \in DOMAIN sel |-> ItemOfRequest(sel[i], order)]]

\* postmanCollection.Item = folderMap[""], then one folder per other key of
\* folderMap appended in the order the map is ranged over.
RebuildItems(folderMap, folderOrder) ==
    LET top == IF <<>> \in DOMAIN folderMap THEN SliceValue(folderMap[<<>>]) ELSE NilValue
        folders == [i \in DOMAIN folderOrder |->
                      PostmanItem(folderOrder[i], folderMap[folderOrder[i]],
                                  NilRequest, <<>>, <<>>)]
    IN IF Len(folders) = 0 THEN top ELSE SliceValue(SliceElems(top) \o folders)

\* The request records ExportPostmanCollection loads.
ExportList(rows, id) == ListByCollectionID(rows, id, ExportListOffset, ExportListLimit)

\* ExportPostmanCollection(ctx, id).  failGet and failList are storage
\* failures of the two reads; order is the order in which maps are ranged
\* over.
ExportPostmanCollection(id, failGet, failList, order) ==
    /\ IF failGet \/ ~CollectionExists(id)
       THEN last' = Result("export", id, TRUE, Len(requests), TNull)
       ELSE LET collection == GetByID(id)
                cached == UnmarshalItems(Marshal(collection.Items))
            IN IF MapLen(collection.Items) > 0 /\ ~cached.err
               THEN last' = Result("export", id, FALSE, Len(requests),
                                   MarshalPostmanCollection(collection, cached.val, order))
               ELSE IF failList
               THEN last' = Result("export", id, TRUE, Len(requests), TNull)
               ELSE LET reqs == ExportList(requests, id)
                        folderMap == FolderMap(reqs, order)
                    IN \E folderOrder \in Orderings(DOMAIN folderMap \ {<<>>}) :
                          last' = Result("export", id, FALSE, Len(requests),
                                         MarshalPostmanCollection(
                                             collection,
                                             RebuildItems(folderMap, folderOrder), order))
    /\ UNCHANGED <<data, imported, collections, requests, nextCollectionID, nextRequestID>>

(***************************************************************************)
(* The other collection operations.                                        *)
(***************************************************************************)
\* RequestRepository.DeleteByCollectionID and CollectionRepository.Delete.
\* A variant that leaves the requests in place.
DeleteByCollectionIDNone(rows, collectionID) == rows

DeleteByCollectionID(rows, collectionID) ==
    SelectSeq(rows, LAMBDA r : r.CollectionID # collectionID)

DeleteCollectionRow(rows, id) == SelectSeq(rows, LAMBDA c : c.ID # id)

\* DeleteCollection(ctx, id): the requests of the collection are deleted
\* first, then the collection row; either delete may fail.
DeleteCollection(id, failRequests, failCollection) ==
    /\ IF failRequests
       THEN /\ last' = Result("delete", id, TRUE, Len(requests), TNull)
            /\ UNCHANGED <<collections, requests>>
       ELSE /\ requests' = DeleteByCollectionID(requests, id)
            /\ IF failCollection
               THEN /\ last' = Result("delete", id, TRUE, Len(requests), TNull)
                    /\ UNCHANGED collections
               ELSE /\ collections' = DeleteCollectionRow(collections, id)
                    /\ last' = Result("delete", id, FALSE, Len(requests), TNull)
    /\ UNCHANGED <<data, imported, nextCollectionID, nextRequestID>>

(***************************************************************************)
(* The HTTP handlers of the collection endpoints.  A response is the       *)
(* helper that sent it (SendSuccess, SendCreated, SendBadRequest,          *)
(* SendNotFound, SendInternalError) and the error the service returned.    *)
(***************************************************************************)
Response(status, err) == [status |-> status, err |-> err]
NoResponse == Response("none", "nil")

\* The errors the handlers receive.
ErrInvalidFormat == "invalid Postman collection format"
ErrNameRequired == "collection name is required"
ErrCreateCollection == "failed to create collection"
ErrCreateRequest == "failed to create request"
ErrNoRows == "sql: no rows in result set"
ErrStorage == "storage failure"

\* The error ImportPostmanCollection returns for the upload d, given whether
\* the collection row was created.
ImportError(d, created) ==
    LET pc == UnmarshalPostmanCollection(d)
    IN IF pc.err THEN ErrInvalidFormat
       ELSE IF NameMissing(pc) THEN ErrNameRequired
       ELSE IF ~created THEN ErrCreateCollection
       ELSE ErrCreateRequest

\* CollectionHandler.Import: every error of the service is answered with
\* SendBadRequest.
Import(failCollection, failAt) ==
    /\ ImportPostmanCollection(failCollection, failAt)
    /\ UNCHANGED <<requestOps, inflight, specs, nextSpecID>>
    /\ httpResponse' = IF last'.err
                       THEN Response("BadRequest", ImportError(data, imported'.id # 0))
                       ELSE Response("Created", "nil")

\* CollectionHandler.Export: GetCollection first, every error of which is
\* answered with SendNotFound, then ExportPostmanCollection, whose errors are
\* answered with SendInternalError.
Export(id, failLookup, failGet, failList, order) ==
    /\ IF failLookup \/ ~CollectionExists(id)
       THEN /\ httpResponse' = Response("NotFound",
                                        IF failLookup THEN ErrStorage ELSE ErrNoRows)
            /\ last' = Result("lookup", id, TRUE, Len(requests), TNull)
            /\ UNCHANGED <<data, imported, collections, requests, nextCollectionID,
                           nextRequestID>>
       ELSE /\ ExportPostmanCollection(id, failGet, failList, order)
            /\ httpResponse' = IF last'.err
                               THEN Response("InternalServerError", ErrStorage)
                               ELSE Response("OK", "nil")
    /\ UNCHANGED <<requestOps, inflight, specs, nextSpecID>>

\* CollectionHandler.Delete.
Delete(id, failRequests, failCollection) ==
    /\ DeleteCollection(id, failRequests, failCollection)
    /\ UNCHANGED <<requestOps, inflight, specs, nextSpecID>>
    /\ httpResponse' = IF last'.err THEN Response("InternalServerError", ErrStorage)
                       ELSE Response("OK", "nil")

(***************************************************************************)
(* The request operations (RequestService), each with the response of its  *)
(* handler: SendInternalError for every error of the service.              *)
(***************************************************************************)
RequestExists(id) == \E i \in DOMAIN requests : requests[i].ID = id

\* RequestRepository.GetByID on a row that exists.
GetRequestByID(id) ==
    ScanRequest(requests[CHOOSE i \in DOMAIN requests : requests[i].ID = id])

\* A variant without the WHERE clause: every row is replaced.
RequestRepoUpdateEveryRow(rows, request) == [i \in DOMAIN rows |-> request]

\* RequestRepository.Update: the row with the primary key of request is
\* replaced by it.
RequestRepoUpdate(rows, request) ==
    [i \in DOMAIN rows |-> IF rows[i].ID = request.ID THEN request ELSE rows[i]]

\* RequestRepository.Delete.
RequestRepoDelete(rows, id) == SelectSeq(rows, LAMBDA r : r.ID # id)

\* The handlers' answer to the outcome of a request operation.
RequestResponse(err, status) ==
    IF err = "nil" THEN Response(status, "nil") ELSE Response("InternalServerError", err)

\* What a request operation leaves behind apart from the requests table.
RequestOutcome(op, id, err, status) ==
    /\ requestOps < MaxRequestOps
    /\ requestOps' = requestOps + 1
    /\ last' = Result(op, id, err # "nil", Len(requests), TNull)
    /\ httpResponse' = RequestResponse(err, status)
    /\ UNCHANGED <<data, imported, collections, nextCollectionID, inflight, specs, nextSpecID>>

\* A variant of the URL handling that stores what it was given.
CreateURLAsGiven(url) == url

\* The URL handling of CreateRequest: a non-empty string raw member replaces
\* the whole object, a nil map becomes the empty object.
CreateURL(url) ==
    IF url # NilValue
    THEN IF "raw" \in DOMAIN url.m /\ url.m["raw"].t = "string" /\ url.m["raw"].v # ""
         THEN JSONMap([key \in {"raw"} |-> url.m["raw"]])
         ELSE url
    ELSE EmptyJSONMap

\* A variant that does not look the collection up.
CollectionOfRequestFoundAlways(request) == TRUE

\* _, err := s.collectionRepo.GetByID(ctx, request.CollectionID)
CollectionOfRequestFound(request) == CollectionExists(request.CollectionID)

\* CreateRequest(ctx, request).
CreateRequest(request, failCreate) ==
    /\ IF ~CollectionOfRequestFound(request)
       THEN /\ RequestOutcome("create", 0, ErrNoRows, "Created")
            /\ UNCHANGED <<requests, nextRequestID>>
       ELSE IF failCreate
       THEN /\ RequestOutcome("create", 0, ErrStorage, "Created")
            /\ UNCHANGED <<requests, nextRequestID>>
       ELSE /\ requests' = Append(requests, [request EXCEPT !.ID = nextRequestID,
                                                            !.URL = CreateURL(@)])
            /\ nextRequestID' = nextRequestID + 1
            /\ RequestOutcome("create", nextRequestID, "nil", "Created")

\* The record CloneRequest builds from the original as read back: it takes
\* the collection, url, method, headers, params and body of the original and
\* leaves the other fields at their zero value.
ClonedRequest(original, newName) ==
    Request(0, original.CollectionID, newName, <<>>,
            IF original.URL # NilValue THEN original.URL ELSE EmptyJSONMap,
            original.Method, original.Headers, original.Params, original.Body,
            NilValue, NilValue, NilValue)

\* CloneRequest(ctx, id, newName).
CloneRequest(id, newName, failCreate) ==
    /\ IF ~RequestExists(id)
       THEN /\ RequestOutcome("clone", id, ErrNoRows, "Created")
            /\ UNCHANGED <<requests, nextRequestID>>
       ELSE IF failCreate
       THEN /\ RequestOutcome("clone", id, ErrStorage, "Created")
            /\ UNCHANGED <<requests, nextRequestID>>
       ELSE /\ requests' = Append(requests, [ClonedRequest(GetRequestByID(id), newName)
                                                EXCEPT !.ID = nextRequestID])
               /\ nextRequestID' = nextRequestID + 1
               /\ RequestOutcome("clone", nextRequestID, "nil", "Created")

\* UpdateRequestPayload, UpdateRequestHeaders and UpdateRequestParams: the
\* row is read, one field is replaced and the whole row is written back.
ErrNilValue == "cannot be nil"

UpdateRequestField(op, id, value, field) ==
    /\ IF value = NilValue
       THEN /\ RequestOutcome(op, id, ErrNilValue, "OK")
            /\ UNCHANGED requests
       ELSE IF ~RequestExists(id)
       THEN /\ RequestOutcome(op, id, ErrNoRows, "OK")
            /\ UNCHANGED requests
       ELSE /\ requests' = RequestRepoUpdate(requests, [GetRequestByID(id) EXCEPT ![field] = value])
            /\ RequestOutcome(op, id, "nil", "OK")
    /\ UNCHANGED nextRequestID

UpdateRequestPayload(id, body) ==
    UpdateRequestField("payload", id, body, "Body")

UpdateRequestHeaders(id, headers) ==
    UpdateRequestField("headers", id, headers, "Headers")

UpdateRequestParams(id, params) ==
    UpdateRequestField("params", id, params, "Params")

\* DeleteRequest(ctx, id).
DeleteRequest(id) ==
    /\ IF ~RequestExists(id)
       THEN /\ RequestOutcome("remove", id, ErrNoRows, "OK")
            /\ UNCHANGED requests
       ELSE /\ requests' = RequestRepoDelete(requests, id)
            /\ RequestOutcome("remove", id, "nil", "OK")
    /\ UNCHANGED nextRequestID

(***************************************************************************)
(* CreateCollection and UpdateCollection, each with the response of its    *)
(* handler: SendInternalError for every error of the service.              *)
(***************************************************************************)
\* CollectionRepository.Update: the row with the primary key of collection
\* is replaced by it.
CollectionRepoUpdate(rows, collection) ==
    [i \in DOMAIN rows |-> IF rows[i].ID = collection.ID THEN collection ELSE rows[i]]

\* What a collection operation leaves behind apart from the collections
\* table.
CollectionOutcome(op, id, err, status) ==
    /\ requestOps < MaxRequestOps
    /\ requestOps' = requestOps + 1
    /\ last' = Result(op, id, err # "nil", Len(requests), TNull)
    /\ httpResponse' = RequestResponse(err, status)
    /\ UNCHANGED <<data, imported, requests, nextRequestID, inflight, specs, nextSpecID>>

\* CreateCollection(ctx, collection): the row is inserted as posted.
CreateCollection(collection, failCreate) ==
    IF failCreate
    THEN /\ CollectionOutcome("createCollection", 0, ErrStorage, "Created")
         /\ UNCHANGED <<collections, nextCollectionID>>
    ELSE /\ collections' = Append(collections, [collection EXCEPT !.ID = nextCollectionID])
         /\ nextCollectionID' = nextCollectionID + 1
         /\ CollectionOutcome("createCollection", nextCollectionID, "nil", "Created")

\* A variant that writes the items the caller sent.
UpdatedCollectionAsSent(collection, existingCollection) == collection

\* collection.Items = existingCollection.Items
UpdatedCollection(collection, existingCollection) ==
    [collection EXCEPT !.Items = existingCollection.Items]

\* UpdateCollection(ctx, collection), with collection.ID set by the handler
\* from the path.
UpdateCollection(id, collection) ==
    /\ IF ~CollectionExists(id)
       THEN /\ CollectionOutcome("updateCollection", id, ErrNoRows, "OK")
            /\ UNCHANGED collections
       ELSE /\ collections' = CollectionRepoUpdate(
                                  collections,
                                  UpdatedCollection([collection EXCEPT !.ID = id], GetByID(id)))
            /\ CollectionOutcome("updateCollection", id, "nil", "OK")
    /\ UNCHANGED nextCollectionID

(***************************************************************************)
(* OpenAPIService, OpenAPIRepository and the import and export handlers of *)
(* OpenAPIHandler.  An upload is invalid JSON, or a JSON text.             *)
(***************************************************************************)
MaxSpecs == 2

Upload(text) == [valid |-> TRUE, text |-> text]
OpenAPISpec(id, title, description, version, content) ==
    [ID |-> id, Title |-> title, Description |-> description,
     Version |-> version, Content |-> content]

ErrOpenAPIFormat == "invalid OpenAPI format"
ErrOpenAPIInfo == "invalid OpenAPI format: missing or invalid 'info' object"
ErrOpenAPITitle == "invalid OpenAPI format: missing or invalid 'title'"
ErrOpenAPIVersion == "invalid OpenAPI format: missing or invalid 'version'"
ErrOpenAPICreate == "failed to create OpenAPI spec"
ErrOpenAPIGet == "failed to get OpenAPI spec"
ErrOpenAPINoContent == "OpenAPI spec has no content"

\* j[key] for a map j that may be nil, and for the result of a failed
\* assertion to map[string]any: a missing key reads as nil.
MapIndex(j, key) ==
    IF j.t = "map" /\ key \in DOMAIN j.m THEN j.m[key] ELSE NilValue

\* v.(string) with the ok flag, followed by the test for the empty string.
NonEmptyString(v) == v.t = "string" /\ v.v # ""

\* json.Unmarshal(data, &content) for content of type models.JSONMap.
DecodeContent(d) ==
    IF d.valid THEN UnmarshalJSONMap(d.text, NilValue)
    ELSE [err |-> TRUE, val |-> NilValue]

\* The error ImportOpenAPISpec returns before it calls the repository,
\* "nil" when the upload passes every check.
ImportOpenAPIError(d) ==
    LET content == DecodeContent(d)
        info == MapIndex(content.val, "info")
    IN  IF content.err THEN ErrOpenAPIFormat
        ELSE IF info.t # "map" THEN ErrOpenAPIInfo
        ELSE IF ~NonEmptyString(MapIndex(info, "title")) THEN ErrOpenAPITitle
        ELSE IF ~NonEmptyString(MapIndex(info, "version")) THEN ErrOpenAPIVersion
        ELSE "nil"

\* The record ImportOpenAPISpec builds from an upload that passed.
ImportedSpec(d, id) ==
    LET content == DecodeContent(d).val
        info == MapIndex(content, "info")
        desc == MapIndex(info, "description")
    IN  OpenAPISpec(id, MapIndex(info, "title").v,
                    IF desc.t = "string" THEN desc.v ELSE "",
                    MapIndex(info, "version").v, content)

\* The handlers' answers: Import answers every service error with 400,
\* Export answers a failed lookup with 404 and a failed export with 500.
OpenAPIOutcome(op, id, err, status, out) ==
    /\ last' = Result(op, id, err # "nil", Len(requests), out)
    /\ httpResponse' = Response(status, err)
    /\ UNCHANGED <<data, imported, collections, requests, nextCollectionID,
                   nextRequestID, requestOps, inflight>>

\* OpenAPIHandler.Import with the upload as its file, through
\* ImportOpenAPISpec and OpenAPIRepository.Create.
ImportOpenAPISpec(failCreate) ==
    LET err == ImportOpenAPIError(data)
    IN  /\ Len(specs) < MaxSpecs
        /\ IF err # "nil"
           THEN /\ OpenAPIOutcome("importSpec", 0, err, "BadRequest", TNull)
                /\ UNCHANGED <<specs, nextSpecID>>
           ELSE IF failCreate
           THEN /\ OpenAPIOutcome("importSpec", 0, ErrOpenAPICreate, "BadRequest", TNull)
                /\ UNCHANGED <<specs, nextSpecID>>
           ELSE /\ specs' = Append(specs, ImportedSpec(data, nextSpecID))
                /\ nextSpecID' = nextSpecID + 1
                /\ OpenAPIOutcome("importSpec", nextSpecID, "nil", "Created", TNull)

\* Whether OpenAPIRepository.GetByID finds a row, and the row it reads: the
\* content column is written as JSON and read back through JSONMap.Scan.
SpecExists(id) == \E i \in DOMAIN specs : specs[i].ID = id
ScanContent(content) ==
    IF content.t = "nil" THEN Scan(content)
    ELSE UnmarshalJSONMap(Marshal(content), NilValue).val
SpecByID(id) ==
    LET row == specs[CHOOSE i \in DOMAIN specs : specs[i].ID = id]
    IN  [row EXCEPT !.Content = ScanContent(row.Content)]

\* OpenAPIHandler.Export, through GetOpenAPISpec and ExportOpenAPISpec.
ExportOpenAPISpec(id) ==
    /\ IF ~SpecExists(id)
       THEN OpenAPIOutcome("exportSpec", id, ErrOpenAPIGet, "NotFound", TNull)
       ELSE IF SpecByID(id).Content.t = "nil"
       THEN OpenAPIOutcome("exportSpec", id, ErrOpenAPINoContent,
                           "InternalServerError", TNull)
       ELSE OpenAPIOutcome("exportSpec", id, "nil", "OK",
                           Marshal(SpecByID(id).Content))
    /\ UNCHANGED <<specs, nextSpecID>>

(***************************************************************************)
(* Concurrent calls.  Every HTTP request is served on a goroutine of its   *)
(* own and the services hold no lock and open no transaction, so the       *)
(* storage calls of two service calls interleave.  A call in progress is   *)
(* the service operation, the storage call it makes next, and its local    *)
(* variables: the id it was given, the row it read or built, and the value *)
(* it was given.                                                           *)
(***************************************************************************)
Procs == {1, 2}

NoRow == [ID |-> 0]
Call(pc, op, id, row, value, err) ==
    [pc |-> pc, op |-> op, id |-> id, row |-> row, value |-> value, err |-> err]
Idle == Call("idle", "none", 0, NoRow, NilValue, "nil")
Done(op, id, value, err) == Call("done", op, id, NoRow, value, err)

\* No service call is between two of its storage calls.
Quiet == \A p \in Procs : inflight[p].pc \in {"idle", "done"}

\* What a step of a concurrent call leaves alone besides the two tables.
StepFrame == UNCHANGED <<data, last, httpResponse, requestOps, specs, nextSpecID>>

\* DeleteCollection: requestRepo.DeleteByCollectionID, then
\* collectionRepo.Delete.
DeleteCollectionRequests(p, id) ==
    /\ inflight[p] = Idle
    /\ requests' = DeleteByCollectionID(requests, id)
    /\ inflight' = [inflight EXCEPT ![p] = Call("deleteRow", "delete", id, NoRow, NilValue, "nil")]
    /\ UNCHANGED <<imported, collections, nextCollectionID, nextRequestID>>
    /\ StepFrame

DeleteCollectionRowStep(p) ==
    /\ inflight[p].pc = "deleteRow"
    /\ collections' = DeleteCollectionRow(collections, inflight[p].id)
    /\ inflight' = [inflight EXCEPT ![p] = Done("delete", inflight[p].id, NilValue, "nil")]
    /\ UNCHANGED <<imported, requests, nextCollectionID, nextRequestID>>
    /\ StepFrame

\* CreateRequest: collectionRepo.GetByID, then requestRepo.Create.
CreateRequestLookup(p, request) ==
    /\ inflight[p] = Idle
    /\ inflight' = [inflight EXCEPT ![p] =
                       IF CollectionOfRequestFound(request)
                       THEN Call("insert", "create", 0, [request EXCEPT !.URL = CreateURL(@)],
                                 NilValue, "nil")
                       ELSE Done("create", 0, NilValue, ErrNoRows)]
    /\ UNCHANGED <<imported, collections, requests, nextCollectionID, nextRequestID>>
    /\ StepFrame

\* CloneRequest: requestRepo.GetByID, then requestRepo.Create.
CloneRequestLookup(p, id, newName) ==
    /\ inflight[p] = Idle
    /\ inflight' = [inflight EXCEPT ![p] =
                       IF RequestExists(id)
                       THEN Call("insert", "clone", id, ClonedRequest(GetRequestByID(id), newName),
                                 NilValue, "nil")
                       ELSE Done("clone", id, NilValue, ErrNoRows)]
    /\ UNCHANGED <<imported, collections, requests, nextCollectionID, nextRequestID>>
    /\ StepFrame

\* requestRepo.Create of CreateRequest and CloneRequest.
InsertRequest(p) ==
    /\ inflight[p].pc = "insert"
    /\ requests' = Append(requests, [inflight[p].row EXCEPT !.ID = nextRequestID])
    /\ nextRequestID' = nextRequestID + 1
    /\ inflight' = [inflight EXCEPT ![p] = Done(inflight[p].op, nextRequestID, NilValue, "nil")]
    /\ UNCHANGED <<imported, collections, nextCollectionID>>
    /\ StepFrame

\* UpdateRequestPayload, UpdateRequestHeaders, UpdateRequestParams:
\* requestRepo.GetByID, the assignment of the field, then
\* requestRepo.Update of the whole row.
UpdateRequestRead(p, op, id, value, field) ==
    /\ inflight[p] = Idle
    /\ inflight' = [inflight EXCEPT ![p] =
                       IF value = NilValue THEN Done(op, id, value, ErrNilValue)
                       ELSE IF ~RequestExists(id) THEN Done(op, id, value, ErrNoRows)
                       ELSE Call("write", op, id, [GetRequestByID(id) EXCEPT ![field] = value],
                                 value, "nil")]
    /\ UNCHANGED <<imported, collections, requests, nextCollectionID, nextRequestID>>
    /\ StepFrame

UpdateRequestWrite(p) ==
    /\ inflight[p].pc = "write"
    /\ requests' = RequestRepoUpdate(requests, inflight[p].row)
    /\ inflight' = [inflight EXCEPT ![p] =
                       Done(inflight[p].op, inflight[p].id, inflight[p].value, "nil")]
    /\ UNCHANGED <<imported, collections, nextCollectionID, nextRequestID>>
    /\ StepFrame

\* ImportPostmanCollection: collectionRepo.Create, then the walk with its
\* requestRepo.Create calls.
ImportCollectionRow(p) ==
    /\ inflight[p] = Idle
    /\ imported = NotImported
    /\ LET pc == UnmarshalPostmanCollection(data)
       IN IF pc.err \/ (~pc.err /\ NameMissing(pc))
          THEN /\ inflight' = [inflight EXCEPT ![p] =
                                  Done("import", 0, NilValue, ImportError(data, FALSE))]
               /\ imported' = Imported(0, TRUE)
               /\ UNCHANGED <<collections, nextCollectionID>>
          ELSE /\ collections' = Append(collections,
                                        [CollectionOfDocument(pc) EXCEPT !.ID = nextCollectionID])
               /\ nextCollectionID' = nextCollectionID + 1
               /\ imported' = Imported(nextCollectionID, FALSE)
               /\ inflight' = [inflight EXCEPT ![p] =
                                  Call("items", "import", nextCollectionID, NoRow, NilValue, "nil")]
    /\ UNCHANGED <<requests, nextRequestID>>
    /\ StepFrame

ImportItems(p) ==
    /\ inflight[p].pc = "items"
    /\ LET st == processPostmanItems(SliceElems(UnmarshalPostmanCollection(data).Item),
                                     inflight[p].id, <<>>,
                                     [requests |-> requests, nextID |-> nextRequestID,
                                      calls |-> 0, failAt |-> 0, err |-> FALSE])
       IN /\ requests' = st.requests
          /\ nextRequestID' = st.nextID
    /\ inflight' = [inflight EXCEPT ![p] = Done("import", inflight[p].id, NilValue, "nil")]
    /\ UNCHANGED <<imported, collections, nextCollectionID>>
    /\ StepFrame

(***************************************************************************)
(* Inputs.                                                                 *)
(***************************************************************************)
DefaultRequest == PostmanRequest(StringValue("u"), "GET", <<>>, ZeroBody, NilValue)
Leaf(name, request) == PostmanItem(name, <<>>, request, <<>>, <<>>)
Folder(name, item) == PostmanItem(name, item, NilRequest, <<>>, <<>>)

\* The name and request payload of a tree node: nodes that differ in their
\* name (one of them empty), and nodes that differ in having a request.
NameKinds ==
    {[name |-> <<"A">>, request |-> DefaultRequest],
     [name |-> <<>>, request |-> DefaultRequest]}

PayloadKinds ==
    {[name |-> <<"A">>, request |-> DefaultRequest],
     [name |-> <<"B">>, request |-> NilRequest]}

\* Every item tree with exactly n nodes: each node is of one of kinds and has
\* any number of children.
RECURSIVE ForestsOfSize(_, _)
NodesOfSize(n, kinds) ==
    {PostmanItem(kind.name, children, kind.request, <<>>, <<>>) :
        kind \in kinds, children \in ForestsOfSize(n - 1, kinds)}

ForestsOfSize(n, kinds) ==
    IF n = 0 THEN {<<>>}
    ELSE UNION {{<<node>> \o rest : node \in NodesOfSize(k, kinds),
                                    rest \in ForestsOfSize(n - k, kinds)} :
                    k \in 1..n}

CollectionName == <<"C">>

TreeDocuments ==
    {Document(TString(CollectionName), "v2.0.0", SliceValue(forest), <<>>, NilValue, <<>>) :
        forest \in UNION {ForestsOfSize(n, NameKinds) \cup ForestsOfSize(n, PayloadKinds) :
                            n \in 0..MaxNodes}}

\* The shapes a request URL arrives in.
URLs ==
    {NilValue, StringValue(""), StringValue("u"), NumberValue(7),
     SliceValue(<<StringValue("h")>>),
     JSONMap([key \in {"raw"} |-> StringValue("u")]),
     JSONMap([key \in {"raw", "host"} |->
                IF key = "raw" THEN StringValue("w") ELSE SliceValue(<<StringValue("h")>>)]),
     JSONMap([key \in {"host", "port"} |->
                IF key = "port" THEN NumberValue(80) ELSE SliceValue(<<StringValue("h")>>)])}

KeyValuePairs == {KeyValuePair(key, value) : key \in MapKeys, value \in {"1", "2"}}

KeyValueLists == UNION {[1..n -> KeyValuePairs] : n \in 0..MaxHeaders}

Blobs ==
    {[auth |-> NilValue, event |-> <<>>, response |-> <<>>, body |-> ZeroBody],
     [auth |-> Obj({<<"type", TString("basic")>>}), event |-> <<"test">>,
      response |-> <<"ok">>, body |-> PostmanBody("raw", "x")],
     [auth |-> TString("basic"), event |-> <<"test", "prerequest">>,
      response |-> <<>>, body |-> PostmanBody("raw", "")]}

\* One leaf at the root, over every header list, and over every URL shape
\* and blob.
FieldDocuments ==
    {Document(TString(CollectionName), PostmanSchemaURI,
              SliceValue(<<Leaf(<<"A">>, PostmanRequest(StringValue("u"), "POST", header,
                                                       ZeroBody, NilValue))>>),
              <<>>, NilValue, <<>>) :
        header \in KeyValueLists}
    \cup
    {Document(TString(CollectionName), PostmanSchemaURI,
              SliceValue(<<PostmanItem(<<"A">>, <<>>,
                                       PostmanRequest(url, "POST", <<>>, blob.body, blob.auth),
                                       blob.event, blob.response)>>),
              <<>>, NilValue, <<>>) :
        url \in URLs, blob \in Blobs}

\* Collection-level members: info.name in every raw shape, the item member
\* absent, empty or with one leaf, and every variable list.
MetaDocuments ==
    {Document(name, "v2.0.0", item, <<>>, NilValue, <<>>) :
        name \in {Absent, TNull, TString(<<>>), TString(CollectionName), TNumber(1)},
        item \in {NilValue, SliceValue(<<>>), SliceValue(<<Leaf(<<"A">>, DefaultRequest)>>)}}
    \cup
    {Document(TString(CollectionName), schema, NilValue, <<>>, blob.auth, blob.event) :
        schema \in {"", PostmanSchemaURI}, blob \in Blobs}
    \cup
    {Document(TString(CollectionName), "", SliceValue(<<>>), variable, NilValue, <<>>) :
        variable \in KeyValueLists}

\* A three-level document: a request at the top level, a folder holding a
\* request and a nested folder, and two requests in the nested folder.
FixtureDocument ==
    Document(TString(CollectionName), PostmanSchemaURI,
             SliceValue(<<
                Leaf(<<"P">>, PostmanRequest(StringValue("https://example.com/a"), "GET",
                                             <<>>, ZeroBody, NilValue)),
                Folder(<<"A">>, <<
                    Leaf(<<"Q">>, PostmanRequest(
                                     JSONMap([key \in {"raw"} |-> StringValue("w")]),
                                     "PUT", <<>>, ZeroBody, NilValue)),
                    Folder(<<"B">>, <<
                        Leaf(<<"R">>, DefaultRequest),
                        Leaf(<<"S">>, PostmanRequest(StringValue("u"), "POST",
                                                     <<>>, ZeroBody, NilValue))>>)>>)>>),
             <<>>, NilValue, <<>>)

\* A document with nested folders that holds more requests than one export
\* lists: a request at the top level and a folder in a folder with
\* ExportListLimit + 1 requests.
LargeDocument ==
    Document(TString(CollectionName), PostmanSchemaURI,
             SliceValue(<<
                Leaf(<<"P">>, DefaultRequest),
                Folder(<<"A">>, <<
                    Folder(<<"B">>,
                           [i \in 1..(ExportListLimit + 1) |->
                               Leaf(<<"L", ToString(i)>>, DefaultRequest)])>>)>>),
             <<>>, NilValue, <<>>)

\* A request whose URL is a number or an array, followed by a request and by
\* a folder with a request.
CoercionDocuments ==
    {Document(TString(CollectionName), PostmanSchemaURI,
              SliceValue(<<Leaf(<<"X">>, PostmanRequest(url, "GET", <<>>, ZeroBody, NilValue)),
                           Leaf(<<"Y">>, DefaultRequest),
                           Folder(<<"A">>, <<Leaf(<<"Z">>, DefaultRequest)>>)>>),
              <<>>, NilValue, <<>>) :
        url \in {NumberValue(7), SliceValue(<<StringValue("h")>>)}}

\* A document with an event list of its own and one request that carries an
\* event list and a response list.
EventDocument ==
    Document(TString(CollectionName), PostmanSchemaURI,
             SliceValue(<<PostmanItem(<<"E">>, <<>>, DefaultRequest, <<"test">>, <<"ok">>),
                          Leaf(<<"Y">>, DefaultRequest)>>),
             <<>>, NilValue, <<"prerequest">>)

Documents ==
    {InvalidJSON, FixtureDocument, EventDocument}
    \cup TreeDocuments \cup FieldDocuments \cup MetaDocuments \cup CoercionDocuments

\* The rows an earlier session left in the database: a collection created
\* by CreateCollection with an items blob, and one request in it.
SeedCollection ==
    Collection(1, <<"K">>, "v1.0.0", JSONMap([key \in {"A"} |-> NumberValue(1)]),
               NilValue, NilValue, JSONMap([key \in {"A"} |-> StringValue("x")]))

SeedRequest ==
    Request(1, 1, <<"Z">>, <<"F">>, JSONMap([key \in {"raw"} |-> StringValue("z")]),
            "GET", NilValue, NilValue, NilValue, NilValue, NilValue, NilValue)

\* The storage read that fails during an export: none, the lookup of the
\* handler, the lookup of the service or the listing of the requests.
ExportFailures == {"none", "lookup", "get", "list"}

\* The ids requests are made with: the seeded collection, the imported one
\* and one that does not exist.
CollectionIDs == {1, 2, 3}

(***************************************************************************)
(* The specification.                                                      *)
(***************************************************************************)
InitStore ==
    /\ imported = NotImported
    /\ collections = <<SeedCollection>>
    /\ requests = <<SeedRequest>>
    /\ nextCollectionID = 2
    /\ nextRequestID = 2
    /\ last = NoResult
    /\ httpResponse = NoResponse
    /\ requestOps = 0
    /\ inflight = [p \in Procs |-> Idle]
    /\ specs = <<>>
    /\ nextSpecID = 1

Init == data \in Documents /\ InitStore

Next ==
    \/ \E failCollection \in BOOLEAN, failAt \in FailPoints :
          Import(failCollection, failAt)
    \/ \E id \in CollectionIDs, fail \in ExportFailures, order \in Orderings(MapKeys) :
          Export(id, fail = "lookup", fail = "get", fail = "list", order)
    \/ \E id \in CollectionIDs, failRequests \in BOOLEAN, failCollection \in BOOLEAN :
          Delete(id, failRequests, failCollection)

Spec == Init /\ [][Next]_vars

\* The request operations, on an empty database and the upload of one
\* request of every URL shape.
RequestDocuments ==
    {Document(TString(CollectionName), "v2.0.0",
              SliceValue(<<PostmanItem(<<"A">>, <<>>,
                                       PostmanRequest(url, "POST", <<>>, ZeroBody, NilValue),
                                       <<"test">>, <<>>)>>),
              <<>>, NilValue, <<>>) :
        url \in URLs}

\* The requests posted to the create endpoint: for the collection the import
\* creates, with no url, a url without raw and a url with raw, and one in a
\* folder with an auth object.
NewRequests ==
    {Request(0, 1, <<"N">>, <<>>, url, "GET",
             NilValue, NilValue, NilValue, NilValue, NilValue, NilValue) :
        url \in {NilValue,
                 JSONMap([key \in {"host"} |-> SliceValue(<<StringValue("h")>>)]),
                 JSONMap([key \in {"raw", "host"} |->
                            IF key = "raw" THEN StringValue("n")
                            ELSE SliceValue(<<StringValue("h")>>)])}}
    \cup
    {Request(0, 1, <<"N">>, <<"F">>, JSONMap([key \in {"raw"} |-> StringValue("n")]), "GET",
             NilValue, NilValue, NilValue,
             JSONMap([key \in {"type"} |-> StringValue("basic")]), NilValue, NilValue)}

\* The collections given to CreateCollection and UpdateCollection: without
\* an items member and with one.
NewCollections ==
    {Collection(0, <<"K">>, "v1.0.0", NilValue, NilValue, NilValue, items) :
        items \in {NilValue, JSONMap([key \in {"A"} |-> StringValue("x")])}}

CollectionUpdates ==
    {Collection(0, <<"U">>, "v1.0.0", NilValue, NilValue, NilValue, items) :
        items \in {NilValue, JSONMap([key \in {"B"} |-> StringValue("y")])}}

\* The values sent to the update endpoints: JSON null, or an object.
Payloads == {NilValue, JSONMap([key \in {"mode"} |-> StringValue("raw")])}
HeaderMaps == {NilValue, JSONMap([key \in {"A"} |-> "9"])}
ParamMaps == {NilValue, JSONMap([key \in {"A"} |-> StringValue("q")])}

\* The request ids requests are made with: those handed out so far and the
\* next one, which does not exist.
RequestIDs == 1..nextRequestID

InitRequests ==
    /\ data \in RequestDocuments
    /\ imported = NotImported
    /\ collections = <<>>
    /\ requests = <<>>
    /\ nextCollectionID = 1
    /\ nextRequestID = 1
    /\ last = NoResult
    /\ httpResponse = NoResponse
    /\ requestOps = 0
    /\ inflight = [p \in Procs |-> Idle]
    /\ specs = <<>>
    /\ nextSpecID = 1

NextRequests ==
    \/ Import(FALSE, 0)
    \/ \E id \in 1..nextCollectionID, order \in Orderings(MapKeys) :
          Export(id, FALSE, FALSE, FALSE, order)
    \/ \E request \in NewRequests, failCreate \in BOOLEAN : CreateRequest(request, failCreate)
    \/ \E id \in RequestIDs, failCreate \in BOOLEAN : CloneRequest(id, <<"K">>, failCreate)
    \/ \E id \in RequestIDs, body \in Payloads : UpdateRequestPayload(id, body)
    \/ \E id \in RequestIDs, headers \in HeaderMaps : UpdateRequestHeaders(id, headers)
    \/ \E id \in RequestIDs, params \in ParamMaps : UpdateRequestParams(id, params)
    \/ \E id \in RequestIDs : DeleteRequest(id)
    \/ \E collection \in NewCollections, failCreate \in BOOLEAN :
          CreateCollection(collection, failCreate)
    \/ \E id \in 1..nextCollectionID, collection \in CollectionUpdates :
          UpdateCollection(id, collection)

SpecRequests == InitRequests /\ [][NextRequests]_vars

\* Two concurrent HTTP requests on the seeded database, each one service
\* call, and the upload of one request.
InterleavedDocument ==
    Document(TString(CollectionName), PostmanSchemaURI,
             SliceValue(<<Leaf(<<"A">>, DefaultRequest)>>), <<>>, NilValue, <<>>)

InitInterleaved == data = InterleavedDocument /\ InitStore

NextInterleaved ==
    \E p \in Procs :
        \/ \E id \in {1, 2} : DeleteCollectionRequests(p, id)
        \/ DeleteCollectionRowStep(p)
        \/ \E request \in NewRequests : CreateRequestLookup(p, request)
        \/ \E id \in RequestIDs : CloneRequestLookup(p, id, <<"K">>)
        \/ InsertRequest(p)
        \/ \E id \in RequestIDs, body \in Payloads :
              UpdateRequestRead(p, "payload", id, body, "Body")
        \/ \E id \in RequestIDs, headers \in HeaderMaps :
              UpdateRequestRead(p, "headers", id, headers, "Headers")
        \/ \E id \in RequestIDs, params \in ParamMaps :
              UpdateRequestRead(p, "params", id, params, "Params")
        \/ UpdateRequestWrite(p)
        \/ ImportCollectionRow(p)
        \/ ImportItems(p)

SpecInterleaved == InitInterleaved /\ [][NextInterleaved]_vars

\* The uploads of the OpenAPI import: text that is not JSON, JSON that is
\* not an object, objects whose info, title or version is missing or of the
\* wrong kind, and documents that pass, with numbers below and above 2^53.
OpenAPIInfo(title, version, description) ==
    Obj(Opt(title # Absent, "title", title)
        \cup Opt(version # Absent, "version", version)
        \cup Opt(description # Absent, "description", description))

OpenAPIDocument(info, extra) ==
    Upload(Obj(Opt(info # Absent, "info", info)
               \cup {<<"openapi", TString("3.0.0")>>} \cup extra))

OpenAPIUploads ==
    {InvalidJSON, Upload(TNull), Upload(TArray(<<>>)), Upload(TString("x")),
     Upload(TNumber(1))}
    \cup {OpenAPIDocument(info, {}) :
            info \in {Absent, TNull, TString("T"), TArray(<<>>)}}
    \cup {OpenAPIDocument(OpenAPIInfo(title, version, description), {}) :
            title \in {Absent, TNull, TString(""), TString("T"), TNumber(1)},
            version \in {Absent, TString(""), TString("1"), TNumber(1)},
            description \in {Absent, TString("d")}}
    \cup {OpenAPIDocument(OpenAPIInfo(TString("T"), TString("1"), Absent),
                          {<<"paths", Obj({<<"x-limit", n>>})>>}) :
            n \in {TNumber(7), TNumberAbove53(0), TNumberAbove53(1),
                   TNumberAbove53(2), TNumberAbove53(3)}}

InitOpenAPI == data \in OpenAPIUploads /\ InitStore

NextOpenAPI ==
    \/ \E failCreate \in BOOLEAN : ImportOpenAPISpec(failCreate)
    \/ \E id \in 1..nextSpecID : ExportOpenAPISpec(id)

SpecOpenAPI == InitOpenAPI /\ [][NextOpenAPI]_vars

\* The same operations on the upload of a document larger than an export
\* lists.
InitLarge == data \in {LargeDocument, FixtureDocument} /\ InitStore

SpecLarge == InitLarge /\ [][Next]_vars

(***************************************************************************)
(* Vocabulary of the properties: the input tree, the rows an import        *)
(* created and the exported document, each read without the converter.     *)
(***************************************************************************)
\* The item list of the uploaded document.
InputItems == IF data.valid THEN SliceElems(data.item) ELSE <<>>

\* A node that yields a record: no non-empty nested item array, and a
\* request.
IsLeafNode(node) == Len(node.Item) = 0 /\ node.Request # NilRequest

\* The number of such nodes in a tree, at any depth.
RECURSIVE CountLeafNodes(_)
CountLeafNodes(items) ==
    IF items = <<>> THEN 0
    ELSE (IF IsLeafNode(Head(items)) THEN 1 ELSE 0)
         + CountLeafNodes(Head(items).Item) + CountLeafNodes(Tail(items))

RECURSIVE CountNodes(_)
CountNodes(items) ==
    IF items = <<>> THEN 0
    ELSE 1 + CountNodes(Head(items).Item) + CountNodes(Tail(items))

\* The leaf nodes in depth-first, left-to-right order, each with the names of
\* its ancestor folders from the root down.
RECURSIVE LeafSeq(_, _)
LeafSeq(items, ancestors) ==
    IF items = <<>> THEN <<>>
    ELSE LET node == Head(items)
             here == IF Len(node.Item) > 0
                     THEN LeafSeq(node.Item, Append(ancestors, node.Name))
                     ELSE IF node.Request = NilRequest THEN <<>>
                     ELSE <<[node |-> node, ancestors |-> ancestors]>>
         IN here \o LeafSeq(Tail(items), ancestors)

InputLeaves == LeafSeq(InputItems, <<>>)

\* The names joined with "/".
RECURSIVE JoinSlash(_)
JoinSlash(names) ==
    IF names = <<>> THEN <<>>
    ELSE IF Len(names) = 1 THEN names[1]
    ELSE names[1] \o <<"/">> \o JoinSlash(Tail(names))

\* The names without the empty ones at the front.
RECURSIVE DropLeadingEmpty(_)
DropLeadingEmpty(names) ==
    IF names = <<>> THEN <<>>
    ELSE IF Head(names) = <<>> THEN DropLeadingEmpty(Tail(names))
    ELSE names

\* The state right after an import, and the rows that import created: the
\* i-th created row belongs to the i-th leaf.
AfterImport == last.op = "import"
Created == SubSeq(requests, last.pre + 1, Len(requests))
ImportSucceeded == AfterImport /\ ~last.err

\* The value the last key-value pair with that key carries.
LastValue(list, key) ==
    list[CHOOSE i \in DOMAIN list :
            /\ list[i].Key = key
            /\ \A j \in DOMAIN list : list[j].Key = key => j <= i].Value

KeysOf(list) == {list[i].Key : i \in DOMAIN list}

\* The entries of a map[string]string field (a nil map has none).
Entries(headers) == IF headers.t = "map" THEN headers.m ELSE <<>>

----
\* C1: when every storage create succeeds, an import creates exactly as
\* many request records as the input tree has nodes with no non-empty
\* nested item array and a non-null request, at any depth.
C1_OneRecordPerLeaf ==
    ImportSucceeded => Len(requests) - last.pre = CountLeafNodes(InputItems)

\* An import succeeded on a tree with nested leaves and with nodes that
\* yield no record.
C1_Witness ==
    /\ ImportSucceeded
    /\ Len(requests) - last.pre >= 2
    /\ CountNodes(InputItems) > CountLeafNodes(InputItems)
    /\ \E i \in DOMAIN Created : Created[i].FolderPath # <<>>

\* C2 as stated: every record emitted by import has folder_path equal to
\* the slash-joined names of its ancestor folders; a leaf directly under the
\* root gets "".
C2_FolderPathIsJoinedAncestors ==
    AfterImport =>
        \A i \in DOMAIN Created :
            Created[i].FolderPath = JoinSlash(InputLeaves[i].ancestors)

\* C2 amended: every record emitted by import has folder_path equal to the
\* slash-joined names of its ancestor folders after dropping the empty-named
\* folders that precede the first non-empty-named ancestor; a leaf directly
\* under the root gets "".
C2_FolderPathIsJoinedAfterLeadingEmpty ==
    AfterImport =>
        \A i \in DOMAIN Created :
            /\ Created[i].FolderPath =
                  JoinSlash(DropLeadingEmpty(InputLeaves[i].ancestors))
            /\ InputLeaves[i].ancestors = <<>> => Created[i].FolderPath = <<>>

\* An import created a record two folders deep, in a named folder that lies
\* in a folder whose name is empty.
C2_Witness ==
    /\ AfterImport
    /\ \E i \in DOMAIN Created :
          /\ InputLeaves[i].ancestors = << <<>>, <<"A">> >>
          /\ Created[i].FolderPath = <<"A">>

\* C3: a request whose URL is a non-empty bare string s is stored with url
\* equal to the single-key object {"raw": s}.
C3_BareStringURLWrapped ==
    AfterImport =>
        \A i \in DOMAIN Created :
            LET url == InputLeaves[i].node.Request.URL
            IN (url.t = "string" /\ url.v # "") =>
                  /\ Created[i].URL.t = "map"
                  /\ DOMAIN Created[i].URL.m = {"raw"}
                  /\ Created[i].URL.m["raw"] = [t |-> "string", v |-> url.v]

\* An import stored a request whose URL was the bare string
\* "https://example.com/a".
C3_Witness ==
    /\ AfterImport
    /\ \E i \in DOMAIN Created :
          /\ InputLeaves[i].node.Request.URL =
                [t |-> "string", v |-> "https://example.com/a"]
          /\ Created[i].URL.t = "map"

\* C4: a request whose URL is a JSON object is stored with a url object that
\* has exactly the keys and values of the input object.
C4_ObjectURLPreserved ==
    AfterImport =>
        \A i \in DOMAIN Created :
            LET url == InputLeaves[i].node.Request.URL
            IN url.t = "map" =>
                  /\ Created[i].URL.t = "map"
                  /\ DOMAIN Created[i].URL.m = DOMAIN url.m
                  /\ \A key \in DOMAIN url.m : Created[i].URL.m[key] = url.m[key]

\* An import stored a request whose URL was an object with a raw and a host
\* member.
C4_Witness ==
    /\ AfterImport
    /\ \E i \in DOMAIN Created :
          /\ InputLeaves[i].node.Request.URL.t = "map"
          /\ DOMAIN InputLeaves[i].node.Request.URL.m = {"raw", "host"}

\* C5: a key-value list (request headers, collection variables) becomes a
\* mapping with one entry per distinct key, whose value is the value of the
\* last list element with that key.
C5_LastWriteWins ==
    AfterImport =>
        /\ \A i \in DOMAIN Created :
              LET list == InputLeaves[i].node.Request.Header
                  entries == Entries(Created[i].Headers)
              IN /\ DOMAIN entries = KeysOf(list)
                 /\ \A key \in KeysOf(list) : entries[key] = LastValue(list, key)
        /\ (imported.id # 0) =>
              LET row == collections[CHOOSE c \in DOMAIN collections :
                                        collections[c].ID = imported.id]
              IN /\ row.Variables.t = "map"
                 /\ DOMAIN row.Variables.m = KeysOf(data.variable)
                 /\ \A key \in KeysOf(data.variable) :
                       row.Variables.m[key] =
                          [t |-> "string", v |-> LastValue(data.variable, key)]

\* An import stored a request whose header list names one key twice with
\* different values.
C5_Witness ==
    /\ AfterImport
    /\ \E i \in DOMAIN Created :
          LET list == InputLeaves[i].node.Request.Header
          IN /\ Len(list) = 2
             /\ list[1].Key = list[2].Key
             /\ list[1].Value # list[2].Value
             /\ Created[i].Headers.t = "map"

\* The upload is not valid JSON for the document, or its info.name is empty
\* or absent.
Malformed(d) ==
    \/ ~d.valid
    \/ d.name.k \notin {"string"}
    \/ d.name.k = "string" /\ d.name.s = <<>>

\* The step in which the upload is handled.
ImportStep == imported = NotImported /\ imported' # NotImported

\* C6: an import of input that is not valid JSON, or whose info.name is
\* empty or absent, returns an error and makes no create call: the stored
\* state is unchanged.
C6_MalformedInputWritesNothing ==
    [][(ImportStep /\ Malformed(data)) =>
          /\ last'.op = "import" /\ last'.err
          /\ collections' = collections
          /\ requests' = requests
          /\ nextCollectionID' = nextCollectionID
          /\ nextRequestID' = nextRequestID]_vars

\* An import was made of a document that has a request to store but no
\* info.name.
C6_Witness ==
    /\ AfterImport
    /\ data.valid
    /\ data.name = Absent
    /\ CountLeafNodes(InputItems) > 0
    /\ last.err

(***************************************************************************)
(* Reading an exported document.                                           *)
(***************************************************************************)
AfterExport == last.op = "export"
ExportSucceeded == AfterExport /\ ~last.err

\* The root item list of the exported document (no elements when the member
\* is null).
RootItems == IF last.out.o["item"].k = "array" THEN last.out.o["item"].a ELSE <<>>

IsLeafText(it) == "request" \in DOMAIN it.o
NestedItems(it) == IF "item" \in DOMAIN it.o THEN it.o["item"].a ELSE <<>>

\* url.raw of an exported request and of an uploaded one; "" when there is
\* none.
RawOfText(url) ==
    CASE url.k = "string" -> url.s
      [] url.k = "object" /\ "raw" \in DOMAIN url.o /\ url.o["raw"].k = "string" ->
            url.o["raw"].s
      [] OTHER -> ""

RawOfValue(url) ==
    CASE url.t = "string" -> url.v
      [] url.t = "map" /\ "raw" \in DOMAIN url.m /\ url.m["raw"].t = "string" ->
            url.m["raw"].v
      [] OTHER -> ""

\* The (name, method, url.raw) triples of the leaf requests of an exported
\* item list and of an uploaded one.
RECURSIVE TextTriples(_)
TextTriples(list) ==
    UNION {IF IsLeafText(list[i])
           THEN {<<list[i].o["name"].s, list[i].o["request"].o["method"].s,
                   RawOfText(list[i].o["request"].o["url"])>>}
           ELSE TextTriples(NestedItems(list[i])) : i \in DOMAIN list}

RECURSIVE InputTriples(_)
InputTriples(items) ==
    UNION {IF Len(items[i].Item) > 0 THEN InputTriples(items[i].Item)
           ELSE IF items[i].Request = NilRequest THEN {}
           ELSE {<<items[i].Name, items[i].Request.Method,
                   RawOfValue(items[i].Request.URL)>>} : i \in DOMAIN items}

\* The request records of the exported collection.
RowsOf(id) == SelectSeq(requests, LAMBDA r : r.CollectionID = id)
RowsAt(id, path) == SelectSeq(requests, LAMBDA r : r.CollectionID = id /\ r.FolderPath = path)

\* The (name, method) pairs of a list of exported leaves and of a list of
\* rows.
LeafPairs(list) ==
    {<<list[i].o["name"].s, list[i].o["request"].o["method"].s>> :
        i \in {j \in DOMAIN list : IsLeafText(list[j])}}
RowPairs(rows) == {<<rows[i].Name, rows[i].Method>> : i \in DOMAIN rows}

----
\* C7: round trip: importing a document and then exporting the resulting
\* collection yields a document whose set of leaf requests, taken as
\* (name, method, url.raw) triples, equals that of the input document.
C7_RoundTripKeepsLeafTriples ==
    [][(/\ ImportSucceeded
        /\ last'.op = "export" /\ ~last'.err /\ last'.id = last.id)
       => LET item == last'.out.o["item"]
          IN TextTriples(IF item.k = "array" THEN item.a ELSE <<>>)
                = InputTriples(InputItems)]_vars

\* C8: exporting a collection that has zero request records yields a
\* document whose item member is the empty list [] and whose schema is the
\* fixed exchange-schema URI.
C8_EmptyCollectionExportsEmptyList ==
    (ExportSucceeded /\ Len(RowsOf(last.id)) = 0) =>
        /\ last.out.o["item"] = TArray(<<>>)
        /\ "schema" \in DOMAIN last.out.o
        /\ last.out.o["schema"] = TString(PostmanSchemaURI)

\* C9: every successful export, whatever schema is stored on the
\* collection, emits a document whose top-level schema is the literal
\* https://schema.getpostman.com/json/collection/v2.1.0/collection.json.
C9_ExportStampsFixedSchema ==
    ExportSucceeded =>
        /\ "schema" \in DOMAIN last.out.o
        /\ last.out.o["schema"] =
              TString("https://schema.getpostman.com/json/collection/v2.1.0/collection.json")

\* A collection whose stored schema is another value was exported, and the
\* stored value is what info.schema carries.
C9_Witness ==
    /\ ExportSucceeded
    /\ \E i \in DOMAIN collections :
          /\ collections[i].ID = last.id
          /\ collections[i].Schema \notin {"", PostmanSchemaURI}
          /\ last.out.o["info"].o["schema"] = TString(collections[i].Schema)

\* C10: in the rebuilt export the requests with empty folder_path are the
\* leaves of the root item list; for each distinct non-empty folder_path
\* there is exactly one folder node, named by the full path, whose nested
\* items are exactly the leaves of the requests with that folder_path; every
\* folder node comes after all top-level leaves.
C10_RebuiltTreeGroupsByFolderPath ==
    ExportSucceeded =>
        LET rows == RowsOf(last.id)
            paths == {rows[i].FolderPath : i \in DOMAIN rows} \ {<<>>}
            leaves == {i \in DOMAIN RootItems : IsLeafText(RootItems[i])}
            folders == (DOMAIN RootItems) \ leaves
        IN /\ Cardinality(leaves) = Len(RowsAt(last.id, <<>>))
           /\ LeafPairs(RootItems) = RowPairs(RowsAt(last.id, <<>>))
           /\ \A path \in paths :
                 /\ Cardinality({i \in folders : RootItems[i].o["name"].s = path}) = 1
                 /\ \A i \in folders :
                       RootItems[i].o["name"].s = path =>
                          LET nested == NestedItems(RootItems[i])
                          IN /\ \A j \in DOMAIN nested : IsLeafText(nested[j])
                             /\ Len(nested) = Len(RowsAt(last.id, path))
                             /\ LeafPairs(nested) = RowPairs(RowsAt(last.id, path))
           /\ \A i \in folders : RootItems[i].o["name"].s \in paths
           /\ \A i \in DOMAIN RootItems : i \in leaves <=> i <= Cardinality(leaves)

----
\* C11: if the create of the N-th request record (in walk order) fails,
\* import returns an error, no further create call is made, nothing is rolled
\* back, and the storage holds exactly the new collection row plus the first
\* N-1 request records.
C11_FailedCreateKeepsPrefix ==
    [][\A n \in FailPoints \ {0} :
          (Import(FALSE, n) /\ ~Malformed(data) /\ n <= Len(InputLeaves)) =>
             /\ last'.err
             /\ httpResponse'.err = ErrCreateRequest
             /\ Len(collections') = Len(collections) + 1
             /\ SubSeq(collections', 1, Len(collections)) = collections
             /\ collections'[Len(collections')].ID = imported'.id
             /\ Len(requests') = Len(requests) + n - 1
             /\ SubSeq(requests', 1, Len(requests)) = requests
             /\ \A i \in 1..(n - 1) :
                   /\ requests'[Len(requests) + i].Name = InputLeaves[i].node.Name
                   /\ requests'[Len(requests) + i].CollectionID = imported'.id]_vars

\* The create of the second of four requests failed, inside a folder that is
\* followed by a nested folder: the collection row and the first request
\* record are stored.
C11_Witness ==
    /\ AfterImport
    /\ last.err
    /\ imported.id # 0
    /\ data = FixtureDocument
    /\ Len(Created) = 1
    /\ Created[1].Name = <<"P">>
    /\ \E i \in DOMAIN collections : collections[i].ID = imported.id

\* The ids of the rows of the collections table.
CollectionIDsOf(rows) == {rows[i].ID : i \in DOMAIN rows}

\* C12: during import the collection row is created before any request
\* record; no request create is attempted if the collection create fails;
\* every request record the import creates carries the id of that collection.
C12_CollectionRowFirst ==
    [][ImportStep =>
          /\ \A n \in FailPoints :
                Import(TRUE, n) =>
                   /\ last'.err
                   /\ collections' = collections
                   /\ requests' = requests
                   /\ nextRequestID' = nextRequestID
          /\ (Len(requests') > Len(requests)) =>
                /\ imported'.id \notin CollectionIDsOf(collections)
                /\ imported'.id \in CollectionIDsOf(collections')
                /\ \A i \in (Len(requests) + 1)..Len(requests') :
                      requests'[i].CollectionID = imported'.id]_vars

\* An import stored a collection row and three or more request records that
\* carry its id.
C12_Witness ==
    /\ ImportSucceeded
    /\ Len(Created) >= 3
    /\ imported.id \in CollectionIDsOf(collections)
    /\ \A i \in DOMAIN Created : Created[i].CollectionID = imported.id

\* C13: after DeleteCollection(id) returns without error, the collection
\* row id no longer exists and no request record has collection id = id; the
\* other collections and their requests are unchanged.
C13_DeleteRemovesCollectionAndRequests ==
    [][(last'.op = "delete" /\ ~last'.err /\ last' # last) =>
          LET id == last'.id
          IN /\ id \notin CollectionIDsOf(collections')
             /\ \A i \in DOMAIN requests' : requests'[i].CollectionID # id
             /\ requests' = SelectSeq(requests, LAMBDA r : r.CollectionID # id)
             /\ collections' = SelectSeq(collections, LAMBDA c : c.ID # id)]_vars

\* A collection with request records was deleted while another collection
\* with request records stays.
C13_Witness ==
    /\ last.op = "delete"
    /\ ~last.err
    /\ last.pre > Len(requests)
    /\ Len(requests) > 0
    /\ last.id \notin CollectionIDsOf(collections)
    /\ Len(collections) > 0

\* An uploaded URL that is null, missing, an empty string or not decodable
\* as an object.
NotAnObjectURL(url) ==
    \/ url.t \in {"nil", "float64", "slice"}
    \/ url.t = "string" /\ url.v = ""

\* C14: after any sequence of import, create, clone and field-update
\* operations every request record has a url that is an object, never
\* absent or null; an input URL that is null, missing, an empty string or not
\* decodable as an object is stored as the empty object.
C14_URLNeverAbsent ==
    [][/\ \A i \in DOMAIN requests' : requests'[i].URL.t = "map"
       /\ ImportStep =>
             \A i \in (Len(requests) + 1)..Len(requests') :
                NotAnObjectURL(InputLeaves[i - Len(requests)].node.Request.URL) =>
                   requests'[i].URL = JSONMap(<<>>)
       /\ \A request \in NewRequests :
             (CreateRequest(request, FALSE) /\ Len(requests') > Len(requests)
              /\ request.URL = NilValue) =>
                requests'[Len(requests')].URL = JSONMap(<<>>)]_vars

\* The table holds a record imported from a request whose URL was a number,
\* a record created without a URL, and a clone; all three have the empty
\* object as url.
C14_Witness ==
    /\ imported # NotImported
    /\ InputItems[1].Request.URL.t = "float64"
    /\ \E i, j, k \in DOMAIN requests :
          /\ requests[i].Name = <<"A">>
          /\ requests[j].Name = <<"N">>
          /\ requests[k].Name = <<"K">>
          /\ requests[i].URL = JSONMap(<<>>)
          /\ requests[j].URL = JSONMap(<<>>)
          /\ requests[k].URL = JSONMap(<<>>)

\* C15: every request record created by import has a folder_path that is
\* empty or has no leading slash and no trailing slash, for every input
\* tree, folders with an empty name included.
C15_FolderPathHasNoOuterSlash ==
    AfterImport =>
        \A i \in DOMAIN Created :
            LET path == Created[i].FolderPath
            IN path = <<>> \/ (path[1] # "/" /\ path[Len(path)] # "/")

\* C16: export of a collection id that does not exist is answered as not
\* found, and a failure of the storage lookup for another reason is not
\* answered as not found.
C16_NotFoundOnlyForMissingCollection ==
    (last.op \in {"lookup", "export"}) =>
        /\ httpResponse.err = ErrNoRows => httpResponse.status = "NotFound"
        /\ httpResponse.err = ErrStorage => httpResponse.status # "NotFound"

\* C17: at the import endpoint a malformed-input failure is answered with a
\* client error and a persistence failure with a server error.
C17_ImportErrorClasses ==
    AfterImport =>
        /\ httpResponse.err \in {ErrInvalidFormat, ErrNameRequired} =>
              httpResponse.status = "BadRequest"
        /\ httpResponse.err \in {ErrCreateCollection, ErrCreateRequest} =>
              httpResponse.status = "InternalServerError"

\* The number of leaves of the exported document: those of the root list and
\* those of its folders.
ExportedLeafCount ==
    Cardinality({i \in DOMAIN RootItems : IsLeafText(RootItems[i])})
    + Cardinality(UNION {{<<i, j>> : j \in {k \in DOMAIN NestedItems(RootItems[i]) :
                                              IsLeafText(NestedItems(RootItems[i])[k])}} :
                            i \in {n \in DOMAIN RootItems : ~IsLeafText(RootItems[n])}})

\* C18: the rebuilt export of a collection has exactly one leaf for every
\* request record stored for that collection, whatever their number.
C18_ExportHasEveryRequest ==
    ExportSucceeded => ExportedLeafCount = Len(RowsOf(last.id))

\* C19: a URL that is neither a string nor an object does not fail the
\* import: the item's record is created with the empty object as url and the
\* later items are processed.
C19_URLCoercionNonFatal ==
    [][(Import(FALSE, 0) /\ ~Malformed(data)) =>
          /\ ~last'.err
          /\ httpResponse'.status = "Created"
          /\ Len(requests') = Len(requests) + Len(InputLeaves)
          /\ \A i \in DOMAIN InputLeaves :
                /\ requests'[Len(requests) + i].Name = InputLeaves[i].node.Name
                /\ InputLeaves[i].node.Request.URL.t \in {"float64", "slice"} =>
                      requests'[Len(requests) + i].URL = JSONMap(<<>>)]_vars

\* An import stored three records, the first from a request whose URL was
\* an array.
C19_Witness ==
    /\ ImportSucceeded
    /\ Len(Created) = 3
    /\ InputItems[1].Request.URL.t = "slice"
    /\ Created[1].URL = JSONMap(<<>>)
    /\ Created[3].Name = <<"Z">>

\* C20: import creates the request records in the depth-first left-to-right
\* order of the leaves of the input tree.
C20_CreatesInWalkOrder ==
    AfterImport =>
        /\ \A i \in DOMAIN Created :
              /\ Created[i].Name = InputLeaves[i].node.Name
              /\ Created[i].Method = InputLeaves[i].node.Request.Method
        /\ \A i, j \in DOMAIN Created : i < j => Created[i].ID < Created[j].ID

\* The four requests of the three-level document were created in the order
\* P, Q, R, S.
C20_Witness ==
    /\ ImportSucceeded
    /\ data = FixtureDocument
    /\ [i \in DOMAIN Created |-> Created[i].Name] = << <<"P">>, <<"Q">>, <<"R">>, <<"S">> >>

\* A node with a non-empty nested item array that carries a request, and a
\* node with neither nested items nor a request.
IsFolderWithRequest(node) == Len(node.Item) > 0 /\ node.Request # NilRequest
IsEmptyNode(node) == Len(node.Item) = 0 /\ node.Request = NilRequest

\* C21: a node with a non-empty nested item array yields no record of its
\* own, even when it carries a request, and a node with neither nested items
\* nor a request yields no record and does not stop the walk: the records
\* created are those of the leaves with a request, one each, in their folder.
C21_OnlyRequestLeavesYieldRecords ==
    ImportSucceeded =>
        /\ Len(Created) = Len(InputLeaves)
        /\ \A i \in DOMAIN Created :
              /\ Created[i].Name = InputLeaves[i].node.Name
              /\ Created[i].FolderPath =
                    JoinSlash(DropLeadingEmpty(InputLeaves[i].ancestors))

\* An import of a node without items and request followed by a folder that
\* carries a request and holds one request: only the inner request has a
\* record.
C21_Witness ==
    /\ ImportSucceeded
    /\ Len(InputItems) = 2
    /\ IsEmptyNode(InputItems[1])
    /\ IsFolderWithRequest(InputItems[2])
    /\ Len(Created) = 1
    /\ Created[1].FolderPath = <<"A">>

\* The leaves of an exported item list, at any depth.
RECURSIVE ExportedLeaves(_)
ExportedLeaves(list) ==
    UNION {IF IsLeafText(list[i]) THEN {list[i]}
           ELSE ExportedLeaves(NestedItems(list[i])) : i \in DOMAIN list}

\* What an exported leaf and a request record say about a request: name,
\* method, url.raw, body.mode and the header pairs.
LeafFacts(leaf) ==
    LET request == leaf.o["request"].o
    IN <<leaf.o["name"].s, request["method"].s, RawOfText(request["url"]),
         IF "body" \in DOMAIN request /\ "mode" \in DOMAIN request["body"].o
         THEN request["body"].o["mode"].s ELSE "",
         IF "header" \in DOMAIN request
         THEN {<<request["header"].a[i].o["key"].s, request["header"].a[i].o["value"].s>> :
                 i \in DOMAIN request["header"].a}
         ELSE {}>>

RowFacts(row) ==
    <<row.Name, row.Method, RawOfValue(row.URL),
      IF row.Body.t = "map" /\ "mode" \in DOMAIN row.Body.m /\ row.Body.m["mode"].t = "string"
      THEN row.Body.m["mode"].v ELSE "",
      {<<key, Entries(row.Headers)[key]>> : key \in DOMAIN Entries(row.Headers)}>>

\* C22: export is never stale: whatever request operations came before, the
\* leaves of a successful export are built from the request records stored
\* for the collection at that moment, one leaf per record the export lists.
C22_ExportIsNeverStale ==
    ExportSucceeded =>
        LET rows == RowsOf(last.id)
            leaves == ExportedLeaves(RootItems)
        IN /\ {LeafFacts(leaf) : leaf \in leaves} \subseteq {RowFacts(rows[i]) : i \in DOMAIN rows}
           /\ Len(rows) <= ExportListLimit =>
                 /\ ExportedLeafCount = Len(rows)
                 /\ {RowFacts(rows[i]) : i \in DOMAIN rows}
                       \subseteq {LeafFacts(leaf) : leaf \in leaves}

\* A collection was exported after two request operations, one of them an
\* update of a payload, and the exported leaf carries the new body.
C22_Witness ==
    /\ ExportSucceeded
    /\ requestOps = 2
    /\ Len(RowsOf(last.id)) = 2
    /\ \E i \in DOMAIN requests : RowFacts(requests[i])[4] = "raw"
    /\ \E leaf \in ExportedLeaves(RootItems) : LeafFacts(leaf)[4] = "raw"

\* C23: the events and responses of every imported request and the events
\* of the imported collection are left absent, also when the item or the
\* document carries a non-empty event or response list, and the import
\* succeeds.
C23_EventListsAreDropped ==
    [][(Import(FALSE, 0) /\ ~Malformed(data)) =>
          /\ ~last'.err
          /\ Len(requests') = Len(requests) + Len(InputLeaves)
          /\ \A i \in (Len(requests) + 1)..Len(requests') :
                /\ requests'[i].Events = NilValue
                /\ requests'[i].Responses = NilValue
          /\ collections'[Len(collections')].ID = last'.id
          /\ collections'[Len(collections')].Events = NilValue]_vars

\* The document with event and response lists was imported: two records
\* were created, the first from the item with the lists, and neither record
\* nor the collection has events.
C23_Witness ==
    /\ ImportSucceeded
    /\ data.event # <<>>
    /\ InputItems[1].Event # <<>>
    /\ InputItems[1].Response # <<>>
    /\ Len(Created) = 2
    /\ Created[1].Events = NilValue
    /\ Created[1].Responses = NilValue
    /\ \E i \in DOMAIN collections :
          collections[i].ID = last.id /\ collections[i].Events = NilValue

\* C24: whenever no operation is in progress, the collection id of every
\* stored request record is the id of a stored collection row, for every
\* interleaving of DeleteCollection with CreateRequest, CloneRequest and
\* ImportPostmanCollection.
C24_RequestsReferToCollections ==
    Quiet => \A i \in DOMAIN requests : CollectionExists(requests[i].CollectionID)

\* C25: when an update of the payload and an update of the headers or of the
\* params of the same request ran concurrently and both returned without
\* error, the stored request has the body of the one and the headers or
\* params of the other.
C25_NoLostUpdate ==
    \A p, q \in Procs :
        (/\ inflight[p].pc = "done" /\ inflight[p].op = "payload" /\ inflight[p].err = "nil"
         /\ inflight[q].pc = "done" /\ inflight[q].op \in {"headers", "params"}
         /\ inflight[q].err = "nil"
         /\ inflight[p].id = inflight[q].id)
        => \A i \in DOMAIN requests :
              requests[i].ID = inflight[p].id =>
                 /\ requests[i].Body = inflight[p].value
                 /\ inflight[q].op = "headers" => requests[i].Headers = inflight[q].value
                 /\ inflight[q].op = "params" => requests[i].Params = inflight[q].value

\* The fields of a request record.
RequestFields ==
    {"ID", "CollectionID", "Name", "FolderPath", "URL", "Method", "Headers", "Params",
     "Body", "Auth", "Events", "Responses"}

\* What a call of an update operation on request id with the given value
\* for the given field does to the requests table.  Rows are compared as the
\* repository reads them.
UpdateFrame(id, field, value) ==
    IF value = NilValue \/ ~RequestExists(id)
    THEN last'.err /\ requests' = requests
    ELSE /\ ~last'.err
         /\ Len(requests') = Len(requests)
         /\ \A i \in DOMAIN requests :
               IF requests[i].ID = id
               THEN /\ requests'[i][field] = value
                    /\ \A other \in RequestFields \ {field} :
                          ScanRequest(requests'[i])[other] = ScanRequest(requests[i])[other]
               ELSE requests'[i] = requests[i]

\* C26: run alone, UpdateRequestPayload, UpdateRequestHeaders and
\* UpdateRequestParams change only the body, the headers and the params of
\* the addressed request and leave its other fields and every other request
\* unchanged; with a nil argument or an id that does not exist they return
\* an error and write nothing.
C26_UpdateChangesOnlyItsField ==
    [][\A id \in RequestIDs :
          /\ \A body \in Payloads :
                UpdateRequestPayload(id, body) => UpdateFrame(id, "Body", body)
          /\ \A headers \in HeaderMaps :
                UpdateRequestHeaders(id, headers) => UpdateFrame(id, "Headers", headers)
          /\ \A params \in ParamMaps :
                UpdateRequestParams(id, params) => UpdateFrame(id, "Params", params)]_vars

\* The payload of the imported request was updated while a second request
\* was stored: the imported request has the new body and still its name.
C26_Witness ==
    /\ last.op = "payload"
    /\ ~last.err
    /\ Len(requests) = 2
    /\ \E i \in DOMAIN requests :
          /\ requests[i].ID = last.id
          /\ requests[i].Name = <<"A">>
          /\ requests[i].Body = JSONMap([key \in {"mode"} |-> StringValue("raw")])

\* C27: CreateRequest for a collection id that does not exist returns an
\* error and creates no request record; for an existing collection, when the
\* storage accepts the insert, it creates exactly one request record, with
\* that collection id.
C27_CreateRequestNeedsCollection ==
    [][\A request \in NewRequests, failCreate \in BOOLEAN :
          CreateRequest(request, failCreate) =>
             IF \A i \in DOMAIN collections : collections[i].ID # request.CollectionID
             THEN last'.err /\ requests' = requests
             ELSE IF failCreate THEN last'.err /\ requests' = requests
             ELSE /\ ~last'.err
                  /\ Len(requests') = Len(requests) + 1
                  /\ SubSeq(requests', 1, Len(requests)) = requests
                  /\ requests'[Len(requests')].CollectionID = request.CollectionID
                  /\ requests'[Len(requests')].Name = request.Name
                  /\ requests'[Len(requests')].ID = last'.id]_vars

\* A request was created in the imported collection, next to the imported
\* request.
C27_Witness ==
    /\ last.op = "create"
    /\ ~last.err
    /\ imported # NotImported
    /\ Len(requests) = 2
    /\ requests[2].ID = last.id
    /\ requests[2].Name = <<"N">>
    /\ \E i \in DOMAIN collections : collections[i].ID = requests[2].CollectionID

\* C28: UpdateCollection never changes the items blob of a collection: the
\* items value written is the value read from the existing row, whatever
\* items value the caller supplies; for a collection id that does not exist
\* it returns an error and writes nothing.
C28_UpdateCollectionKeepsItems ==
    [][\A id \in 1..nextCollectionID, collection \in CollectionUpdates :
          UpdateCollection(id, collection) =>
             IF \A i \in DOMAIN collections : collections[i].ID # id
             THEN last'.err /\ collections' = collections
             ELSE /\ ~last'.err
                  /\ Len(collections') = Len(collections)
                  /\ \A i \in DOMAIN collections :
                        IF collections[i].ID = id
                        THEN /\ collections'[i].Items = Scan(collections[i].Items)
                             /\ collections'[i].Name = collection.Name
                             /\ collections'[i].ID = id
                        ELSE collections'[i] = collections[i]]_vars

\* A collection created with an items blob was updated: it has the name the
\* caller sent and the items blob it had, which none of the updates sent.
C28_Witness ==
    /\ last.op = "updateCollection"
    /\ ~last.err
    /\ \E i \in DOMAIN collections :
          /\ collections[i].ID = last.id
          /\ collections[i].Name = <<"U">>
          /\ collections[i].Items = JSONMap([key \in {"A"} |-> StringValue("x")])
          /\ \A collection \in CollectionUpdates : collection.Items # collections[i].Items

\* C29: CloneRequest on an existing request creates exactly one new request
\* record that is a copy of the original in every content field other than
\* the name, leaves the original unchanged and returns the id of the new
\* record; for an id that does not exist it returns an error and creates
\* nothing.  Rows are compared as the repository reads them.
C29_CloneCopiesEveryField ==
    [][\A id \in RequestIDs, failCreate \in BOOLEAN :
          CloneRequest(id, <<"K">>, failCreate) =>
             IF \A i \in DOMAIN requests : requests[i].ID # id
             THEN last'.err /\ requests' = requests
             ELSE IF failCreate THEN last'.err /\ requests' = requests
             ELSE /\ ~last'.err
                  /\ Len(requests') = Len(requests) + 1
                  /\ SubSeq(requests', 1, Len(requests)) = requests
                  /\ requests'[Len(requests')].ID = last'.id
                  /\ requests'[Len(requests')].Name = <<"K">>
                  /\ \A i \in DOMAIN requests :
                        requests[i].ID = id =>
                           \A field \in RequestFields \ {"ID", "Name"} :
                              ScanRequest(requests'[Len(requests')])[field]
                                 = ScanRequest(requests[i])[field]]_vars

\* The error cases of an OpenAPI upload, read from its text: not a JSON
\* object, no info object, or a title or version that is missing, empty or
\* not a string.
IsNonEmptyText(members, key) ==
    /\ key \in DOMAIN members
    /\ members[key].k = "string"
    /\ members[key].s # ""

BadOpenAPIUpload(d) ==
    \/ ~d.valid
    \/ d.text.k # "object"
    \/ "info" \notin DOMAIN d.text.o
    \/ d.text.o["info"].k # "object"
    \/ ~IsNonEmptyText(d.text.o["info"].o, "title")
    \/ ~IsNonEmptyText(d.text.o["info"].o, "version")

\* C30: ImportOpenAPISpec creates no spec record and returns an error when
\* the upload is not a JSON object, has no info object, or has a missing,
\* empty or non-string info.title or info.version; otherwise it creates
\* exactly one spec record whose content is the whole parsed document, and
\* ExportOpenAPISpec of a returned id yields a document equal in content to
\* the upload.
C30_OpenAPIImportRoundTrip ==
    [][/\ (ImportOpenAPISpec(FALSE) /\ BadOpenAPIUpload(data)) =>
              /\ last'.err
              /\ specs' = specs
       /\ (ImportOpenAPISpec(FALSE) /\ ~BadOpenAPIUpload(data)) =>
              /\ ~last'.err
              /\ Len(specs') = Len(specs) + 1
              /\ SubSeq(specs', 1, Len(specs)) = specs
              /\ specs'[Len(specs')].ID = last'.id
              /\ specs'[Len(specs')].Content = UnmarshalAny(data.text)
       /\ \A id \in 1..nextSpecID :
              (ExportOpenAPISpec(id) /\ SpecExists(id)) =>
                  /\ ~last'.err
                  /\ last'.out = data.text]_vars

====
